---- MODULE Spec2Model ----
(***************************************************************************)
(* Model of the byte-level vocabulary trainer: the token set, the suffix   *)
(* automaton, the dynamic-programming tokenizer, the parallel scan and the *)
(* training loop of src/main.rs, and the token set of src/tokens.rs.       *)
(*                                                                         *)
(* Bytes are the integers 0..255 and byte strings are sequences of bytes.  *)
(* Token ids, state ids and positions are 0-based as in the source; the    *)
(* element with id i of a Vec is element i + 1 of the sequence modelling   *)
(* it.                                                                     *)
(***************************************************************************)
EXTENDS Integers, Sequences, FiniteSets, TLC

VARIABLES
    token_set,   \* main.rs TokenSet the tokenizer is built from
    tokenizer,   \* main.rs Tokenizer (NoTokenizer before Tokenizer::new)
    input,       \* bytes consumed by the tokenizer since its last reset
    panicked,    \* TRUE once an index/unwrap/assert of the code has failed
    last_stats,  \* result of the last Tokenizer::get_stats call
    \* tokenize_file and its workers
    file,        \* the bytes of the data file
    splits,      \* the chunk boundaries handed to tokenize_file
    nworkers,    \* available_parallelism(): the number of workers spawned
    main_pc,     \* where the main thread is in tokenize_file
    njobs,       \* jobs sent so far (the loop index of lines 485-490)
    nresults,    \* results received so far (the loop index of lines 494-504)
    jobs,        \* jobs channel: the jobs sent and not yet received
    jobs_open,   \* FALSE once jobs_tx has been dropped
    lock,        \* the worker holding the mutex of jobs_rx, or NoWorker
    workers,     \* per worker: pc, file position, job, to_read, DP state
    results,     \* results channel: the statistics sent and not yet received
    total_stats, \* total_stats of tokenize_file
    emitted,     \* history: job, worker and statistics of every send, in order
    \* optimize_bpe and main
    ntokens,     \* args.ntokens, the target handed to optimize_bpe
    bpe_pc,      \* where main and optimize_bpe are
    start_size,  \* history: number of tokens of the set handed to optimize_bpe
    prev_scan,   \* history: set size and total cost of the tokenize_file call before
    last_scan,   \*          the last one, and of the last one
    \* tokens.rs
    tset,        \* a tokens::TokenSet
    tset_panicked \* a call on tset has panicked

tokVars == <<token_set, tokenizer, input, panicked, last_stats>>
scanVars == <<file, splits, nworkers, main_pc, njobs, nresults, jobs, jobs_open,
              lock, workers, results, total_stats, emitted>>
bpeVars == <<ntokens, bpe_pc, start_size, prev_scan, last_scan>>
setVars == <<tset, tset_panicked>>
vars == <<tokVars, scanVars, bpeVars, setVars>>

(***************************************************************************)
(* Bounds of the model.                                                    *)
(***************************************************************************)
\* longest input fed to one tokenizer between two resets
MaxLen == 4
\* longest slice handed to one process_slice call
MaxSlice == 2
\* longest data file
MaxFile == 3
\* most workers tokenize_file spawns
MaxWorkers == 2
\* largest of the small chunk sizes split_into_chunks is given besides
\* CHUNK_SIZE, so that files of a few bytes have several chunks
MaxChunk == 2
\* line 404: const CHUNK_SIZE: usize = 32 * 1024 * 1024
CHUNK_SIZE == 33554432
\* the chunk sizes split_into_chunks is called with: the one of main (line
\* 684), and the small ones
ChunkSizes == (1..MaxChunk) \cup {CHUNK_SIZE}
\* most epochs the target lets optimize_bpe run
MaxEpochs == 2
\* line 405: const BUFFER_SIZE: usize = 256 * 1024
BUFFER_SIZE == 262144

\* bytes the inputs are drawn from: 0x11 (mandatory in bin), 'a', 'b'
InputBytes == {17, 97, 98}
\* strings the added tokens are drawn from
AddStrings == { <<97>>, <<97, 98>>, <<98, 97, 98>> }
\* bytes the data files are made of: 0x13 (the chunk delimiter) and 'a'
FileBytes == {19, 97}

(***************************************************************************)
(* Helpers on byte strings.                                                *)
(***************************************************************************)
\* string[start..] of the source (start is 0-based)
SliceFrom(s, start) == SubSeq(s, start + 1, Len(s))
\* string[..end] of the source
SliceTo(s, end) == SubSeq(s, 1, end)

\* Option<usize>::None
None == -1
\* usize::MAX, the initial best cost; the largest integer TLC represents
\* stands for 2^64 - 1 (no cost of the model comes near either)
usize_MAX == 2147483647

(***************************************************************************)
(* main.rs: Token and TokenSet                                             *)
(***************************************************************************)
Token_new(string, is_literal) ==
    [string |-> string, is_literal |-> is_literal, suffix |-> None]

\* HashMap::get as a test and a read
HasKey(m, k) == k \in DOMAIN m
\* HashMap::insert
MapInsert(m, k, v) == (k :> v) @@ m

\* tokens[id]
Tok(ts, id) == ts.tokens[id + 1]

add_token(ts, string, is_literal) ==
    IF HasKey(ts.tokens_by_string, string)
       /\ ~Tok(ts, ts.tokens_by_string[string]).is_literal
    THEN ts
    ELSE [ts EXCEPT
            !.tokens = Append(@, Token_new(string, is_literal)),
            !.tokens_by_string = MapInsert(@, string, Len(ts.tokens)),
            !.ntokens = @ + 1]

\* for i in lo..=hi { token_set.add_token(&[i], is_literal) }: the calls
\* are made in increasing i. The range is halved, and the first half is
\* evaluated (first = first) before the second starts, to keep the nesting
\* of the evaluation shallow.
RECURSIVE add_byte_range(_, _, _, _)
add_byte_range(ts, lo, hi, is_literal) ==
    IF lo > hi THEN ts
    ELSE IF lo = hi THEN add_token(ts, <<lo>>, is_literal)
    ELSE LET mid == (lo + hi) \div 2
             first == add_byte_range(ts, lo, mid, is_literal)
         IN  IF first = first
             THEN add_byte_range(first, mid + 1, hi, is_literal)
             ELSE first

EmptyTokenSet(literal_cost) ==
    [tokens |-> <<>>, tokens_by_string |-> <<>>,
     literal_cost |-> literal_cost, ntokens |-> 0]

build_with_hex_literals ==
    LET a == add_byte_range(EmptyTokenSet(3), 0, 255, TRUE)
        b == add_token(a, <<16>>, FALSE)
        c == add_byte_range(b, 48, 57, FALSE)
        d == add_byte_range(c, 97, 102, FALSE)
    IN  [d EXCEPT !.ntokens = Len(d.tokens)]

build_with_bin_literals ==
    LET a == add_byte_range(EmptyTokenSet(8), 0, 255, TRUE)
        b == add_token(a, <<17>>, FALSE)
        c == add_token(b, <<18>>, FALSE)
    IN  [c EXCEPT !.ntokens = Len(c.tokens)]

\* the first start in lo..len-1 with string[start..] in the map, or None
RECURSIVE first_suffix_start(_, _, _)
first_suffix_start(m, string, start) ==
    IF start >= Len(string) THEN None
    ELSE IF HasKey(m, SliceFrom(string, start)) THEN start
    ELSE first_suffix_start(m, string, start + 1)

\* a slip in generate_suffixes: the scan of the suffixes runs from the
\* shortest one, so the link names the shortest suffix token
generate_suffixes_shortest(ts) ==
    [ts EXCEPT !.tokens =
        [i \in 1..Len(ts.tokens) |->
            IF i - 1 < 256 \/ Len(ts.tokens[i].string) < 2 THEN ts.tokens[i]
            ELSE LET token == ts.tokens[i]
                 IN  [token EXCEPT !.suffix =
                        ts.tokens_by_string[SliceFrom(token.string,
                                                      Len(token.string) - 1)]]]]

generate_suffixes(ts) ==
    [ts EXCEPT !.tokens =
        [i \in 1..Len(ts.tokens) |->
            IF i - 1 < 256 THEN ts.tokens[i]
            ELSE LET token == ts.tokens[i]
                     start == first_suffix_start(ts.tokens_by_string, token.string, 1)
                 IN  IF start = None THEN token
                     ELSE [token EXCEPT
                             !.suffix = ts.tokens_by_string[SliceFrom(token.string, start)]]]]

(***************************************************************************)
(* main.rs: SuffixState and Tokenizer::create_suffix_states                *)
(***************************************************************************)
\* The 256-entry next table of a state is not stored: next_state computes
\* the entry for one byte the way phase B of create_suffix_states fills it.
SuffixState_new(suffix, token_id) == [suffix |-> suffix, token_id |-> token_id]

\* state_by_str.get(x): states are inserted once, under their own string
state_by_str(suffix_states, x) ==
    IF \E i \in 1..Len(suffix_states) : suffix_states[i].suffix = x
    THEN (CHOOSE i \in 1..Len(suffix_states) : suffix_states[i].suffix = x) - 1
    ELSE None

\* lines 250-256: the first token_start whose suffix[token_start..] is a token
RECURSIVE suffix_token(_, _, _)
suffix_token(ts, suffix, token_start) ==
    IF token_start >= Len(suffix) THEN None
    ELSE IF HasKey(ts.tokens_by_string, SliceFrom(suffix, token_start))
         THEN ts.tokens_by_string[SliceFrom(suffix, token_start)]
         ELSE suffix_token(ts, suffix, token_start + 1)

\* The inner loop of phase A (lines 242-265) for one token, from end on;
\* acc = [states, failed], failed set by the assert of line 258.
RECURSIVE token_prefixes(_, _, _, _)
token_prefixes(ts, acc, string, end) ==
    IF acc.failed \/ end > Len(string) THEN acc
    ELSE LET suffix == SliceTo(string, end)
             tid == suffix_token(ts, suffix, 0)
         IN  IF state_by_str(acc.states, suffix) # None
             THEN token_prefixes(ts, acc, string, end + 1)
             ELSE IF tid = None
                  THEN [acc EXCEPT !.failed = TRUE]
                  ELSE token_prefixes(ts,
                         [acc EXCEPT !.states = Append(@, SuffixState_new(suffix, tid))],
                         string, end + 1)

\* The outer loop of phase A (line 241) over the tokens with ids lo..hi, in
\* increasing id; the range is halved as in add_byte_range.
RECURSIVE enumerate_states(_, _, _, _)
enumerate_states(ts, acc, lo, hi) ==
    IF lo > hi THEN acc
    ELSE IF lo = hi THEN token_prefixes(ts, acc, Tok(ts, lo).string, 1)
    ELSE LET mid == (lo + hi) \div 2
             first == enumerate_states(ts, acc, lo, mid)
         IN  IF first = first
             THEN enumerate_states(ts, first, mid + 1, hi)
             ELSE first

\* Phase B (lines 267-289): suffix_id.unwrap() of line 285 fails for some
\* state and some last_byte in 0..=255, that is, no suffix[start..] of the
\* state's string plus the byte is a state. The search of lines 276-283 ends
\* at the one-byte string of last_byte at the latest, so only the bytes whose
\* one-byte string is no state are gone through state by state.
next_unwrap_fails(suffix_states) ==
    LET strs == {suffix_states[i].suffix : i \in 1..Len(suffix_states)}
        one_byte == {x[1] : x \in {y \in strs : Len(y) = 1}}
    IN  \E last_byte \in (0..255) \ one_byte :
            \E i \in 1..Len(suffix_states) :
                LET suffix == Append(suffix_states[i].suffix, last_byte)
                IN  \A start \in 0..(Len(suffix) - 1) :
                        SliceFrom(suffix, start) \notin strs

\* create_suffix_states: phase A, then phase B unless phase A has panicked;
\* failed is set by the assert of line 258 or by the unwrap of line 285
create_suffix_states_run(ts) ==
    LET a == enumerate_states(ts,
                 [states |-> <<SuffixState_new(<<>>, 0)>>, failed |-> FALSE],
                 0, Len(ts.tokens) - 1)
    IN  [states |-> a.states,
         failed |-> a.failed \/ next_unwrap_fails(a.states)]

create_suffix_states(ts) == create_suffix_states_run(ts).states
create_suffix_states_panics(ts) == create_suffix_states_run(ts).failed

\* lines 276-283: the first start whose suffix[start..] is a state
RECURSIVE first_state_suffix(_, _, _)
first_state_suffix(suffix_states, suffix, start) ==
    IF start >= Len(suffix) THEN None
    ELSE IF state_by_str(suffix_states, SliceFrom(suffix, start)) # None
         THEN state_by_str(suffix_states, SliceFrom(suffix, start))
         ELSE first_state_suffix(suffix_states, suffix, start + 1)

\* a slip in phase B: no search through the shorter suffixes, the state of
\* the last byte alone is taken when suffix + byte is no state
next_state_no_fallback(suffix_states, state, last_byte) ==
    LET suffix == Append(suffix_states[state + 1].suffix, last_byte)
    IN  IF state_by_str(suffix_states, suffix) # None
        THEN state_by_str(suffix_states, suffix)
        ELSE state_by_str(suffix_states, <<last_byte>>)

\* phase B: suffix_states[state].next[last_byte]; None where the unwrap of
\* line 285 fails
next_state(suffix_states, state, last_byte) ==
    first_state_suffix(suffix_states,
                       Append(suffix_states[state + 1].suffix, last_byte), 0)

(***************************************************************************)
(* main.rs: DynState, Tokenizer                                            *)
(***************************************************************************)
DynState(cost, token_id) == [cost |-> cost, token_id |-> token_id]

NoTokenizer == [none |-> TRUE]

Tokenizer_new(ts) ==
    LET ts1 == generate_suffixes(ts)
    IN  [token_set |-> ts1,
         suffix_states |-> create_suffix_states(ts1),
         current_state |-> 0,
         cost_array |-> <<DynState(0, 19)>>]

reset(tk) ==
    [tk EXCEPT !.current_state = 0, !.cost_array = <<DynState(0, 19)>>]

\* cost of emitting a token: lines 320-324 and 358-362
token_cost(ts, token) == IF token.is_literal THEN ts.literal_cost ELSE 1

\* the token ids the loop of lines 354-374 visits from token_id on
RECURSIVE suffix_chain(_, _)
suffix_chain(ts, token_id) ==
    IF Tok(ts, token_id).suffix # None
    THEN <<token_id>> \o suffix_chain(ts, Tok(ts, token_id).suffix)
    ELSE <<token_id>>

\* a slip in the loop: only the longest token ending here is tried
slice_walk_longest_only(tk, token_id, acc) ==
    LET token == Tok(tk.token_set, token_id)
        idx == Len(tk.cost_array) - Len(token.string)
    IN  [acc EXCEPT !.best =
            DynState(tk.cost_array[idx + 1].cost + token_cost(tk.token_set, token),
                     token_id)]

\* The loop of lines 354-374 from token_id on. acc = [best, panic]; panic is
\* set where an index of the loop is out of range.
RECURSIVE slice_walk(_, _, _)
slice_walk(tk, token_id, acc) ==
    IF token_id < 0 \/ token_id >= Len(tk.token_set.tokens)
    THEN [acc EXCEPT !.panic = TRUE]
    ELSE LET token == Tok(tk.token_set, token_id)
             idx == Len(tk.cost_array) - Len(token.string)
         IN  IF idx < 0 THEN [acc EXCEPT !.panic = TRUE]
             ELSE LET prev_cost == tk.cost_array[idx + 1].cost
                      new_cost == prev_cost + token_cost(tk.token_set, token)
                      acc1 == IF new_cost < acc.best.cost
                              THEN [acc EXCEPT !.best = DynState(new_cost, token_id)]
                              ELSE acc
                  IN  IF token.suffix # None
                      THEN slice_walk(tk, token.suffix, acc1)
                      ELSE acc1

\* The same loop in process_byte, lines 316-336.
RECURSIVE byte_walk(_, _, _)
byte_walk(tk, token_id, acc) ==
    IF token_id < 0 \/ token_id >= Len(tk.token_set.tokens)
    THEN [acc EXCEPT !.panic = TRUE]
    ELSE LET token == Tok(tk.token_set, token_id)
             idx == Len(tk.cost_array) - Len(token.string)
         IN  IF idx < 0 THEN [acc EXCEPT !.panic = TRUE]
             ELSE LET prev_cost == tk.cost_array[idx + 1].cost
                      new_cost == prev_cost + token_cost(tk.token_set, token)
                      acc1 == IF new_cost < acc.best.cost
                              THEN [acc EXCEPT !.best = DynState(new_cost, token_id)]
                              ELSE acc
                  IN  IF token.suffix # None
                      THEN byte_walk(tk, token.suffix, acc1)
                      ELSE acc1

WalkStart == [best |-> DynState(usize_MAX, 0), panic |-> FALSE]

\* a slip in process_slice: the next state is not stored in current_state,
\* the walk starts from the token of the state the automaton was in
slice_step_keeps_state(r, byte) ==
    IF r.panic THEN r
    ELSE LET tk1 == r.tk
             w == slice_walk(tk1, tk1.suffix_states[tk1.current_state + 1].token_id,
                             WalkStart)
         IN  IF w.panic THEN [r EXCEPT !.panic = TRUE]
             ELSE [r EXCEPT !.tk = [tk1 EXCEPT !.cost_array = Append(@, w.best)]]

\* One iteration of the for loop of process_slice; r = [tk, panic].
slice_step(r, byte) ==
    IF r.panic THEN r
    ELSE LET nxt == next_state(r.tk.suffix_states, r.tk.current_state, byte)
         IN  IF nxt = None THEN [r EXCEPT !.panic = TRUE]
             ELSE LET tk1 == [r.tk EXCEPT !.current_state = nxt]
                      w == slice_walk(tk1, tk1.suffix_states[nxt + 1].token_id, WalkStart)
                  IN  IF w.panic THEN [r EXCEPT !.panic = TRUE]
                      ELSE [r EXCEPT !.tk = [tk1 EXCEPT !.cost_array = Append(@, w.best)]]

RECURSIVE slice_loop(_, _, _)
slice_loop(r, bytes, i) ==
    IF i > Len(bytes) THEN r ELSE slice_loop(slice_step(r, bytes[i]), bytes, i + 1)

\* a slip in process_slice: the walk starts from state 0 and not from the
\* state the previous slice ended in
process_slice_from_state_0(tk, bytes) ==
    slice_loop([tk |-> [tk EXCEPT !.current_state = 0], panic |-> FALSE], bytes, 1).tk

process_slice(tk, bytes) == slice_loop([tk |-> tk, panic |-> FALSE], bytes, 1).tk
process_slice_panics(tk, bytes) == slice_loop([tk |-> tk, panic |-> FALSE], bytes, 1).panic

\* process_byte; r = [tk, panic]
byte_step(tk, byte) ==
    LET nxt == next_state(tk.suffix_states, tk.current_state, byte)
    IN  IF nxt = None THEN [tk |-> tk, panic |-> TRUE]
        ELSE LET tk1 == [tk EXCEPT !.current_state = nxt]
                 w == byte_walk(tk1, tk1.suffix_states[nxt + 1].token_id, WalkStart)
             IN  IF w.panic THEN [tk |-> tk, panic |-> TRUE]
                 ELSE [tk |-> [tk1 EXCEPT !.cost_array = Append(@, w.best)],
                       panic |-> FALSE]

process_byte(tk, byte) == byte_step(tk, byte).tk
process_byte_panics(tk, byte) == byte_step(tk, byte).panic

(***************************************************************************)
(* main.rs: TokenStats                                                     *)
(***************************************************************************)
\* A Vec<usize> of counters that starts all zero is kept as its length and
\* its non-zero entries (pair_count has tokens.len()^2 entries).
VecZeros(n) == [len |-> n, nz |-> <<>>]
VecGet(v, i) == IF i \in DOMAIN v.nz THEN v.nz[i] ELSE 0
VecInRange(v, i) == 0 <= i /\ i < v.len
VecInc(v, i) == [v EXCEPT !.nz = (i :> (VecGet(v, i) + 1)) @@ @]

TokenStats_new(ts) ==
    LET n == Len(ts.tokens)
    IN  [token_count |-> VecZeros(n), pair_count |-> VecZeros(n * n),
         cost |-> 0, scanned_bytes |-> 0]

\* v[i] += w[i] for i in 0..v.len; None where w[i] is out of range
VecAdd(v, w) ==
    [v EXCEPT !.nz =
        [i \in (DOMAIN v.nz) \cup {j \in DOMAIN w.nz : j < v.len} |->
            VecGet(v, i) + VecGet(w, i)]]

\* a slip in add: the pair counts are assigned, not added
TokenStats_add_assigns_pairs(self, other) ==
    [token_count |-> VecAdd(self.token_count, other.token_count),
     pair_count |-> [self.pair_count EXCEPT !.nz = other.pair_count.nz],
     cost |-> self.cost + other.cost,
     scanned_bytes |-> self.scanned_bytes + other.scanned_bytes]

TokenStats_add(self, other) ==
    [token_count |-> VecAdd(self.token_count, other.token_count),
     pair_count |-> VecAdd(self.pair_count, other.pair_count),
     cost |-> self.cost + other.cost,
     scanned_bytes |-> self.scanned_bytes + other.scanned_bytes]

TokenStats_add_panics(self, other) ==
    \/ self.token_count.len > other.token_count.len
    \/ self.pair_count.len > other.pair_count.len

\* a slip in the back-trace: pos steps back one byte, not one token
RECURSIVE back_trace_by_one(_, _, _, _)
back_trace_by_one(tk, acc, pos, next_token_id) ==
    IF ~(pos > 0) THEN acc
    ELSE LET token_id == tk.cost_array[pos + 1].token_id
             ipair == token_id * tk.token_set.ntokens + next_token_id
         IN  back_trace_by_one(tk,
                [acc EXCEPT
                   !.stats.token_count = VecInc(@, token_id),
                   !.stats.pair_count = VecInc(@, ipair),
                   !.visited = <<token_id>> \o @],
                pos - 1, token_id)

\* The while loop of get_stats. acc = [stats, panic, visited]; visited lists
\* the token ids the loop has read, the leftmost token first.
RECURSIVE back_trace(_, _, _, _)
back_trace(tk, acc, pos, next_token_id) ==
    IF ~(pos > 0) THEN acc
    ELSE LET token_id == tk.cost_array[pos + 1].token_id
         IN  IF token_id < 0 \/ token_id >= Len(tk.token_set.tokens)
             THEN [acc EXCEPT !.panic = TRUE]
             ELSE LET token == Tok(tk.token_set, token_id)
                      ipair == token_id * tk.token_set.ntokens + next_token_id
                  IN  IF \/ ~VecInRange(acc.stats.token_count, token_id)
                         \/ ~VecInRange(acc.stats.pair_count, ipair)
                         \/ pos - Len(token.string) < 0
                      THEN [acc EXCEPT !.panic = TRUE]
                      ELSE back_trace(tk,
                             [acc EXCEPT
                                !.stats.token_count = VecInc(@, token_id),
                                !.stats.pair_count = VecInc(@, ipair),
                                !.visited = <<token_id>> \o @],
                             pos - Len(token.string), token_id)

\* a slip in get_stats: the token after the last one is taken to be the last
\* token itself, not token 0
get_stats_run_final_pair_self(tk) ==
    LET pos == Len(tk.cost_array) - 1
        stats0 == [TokenStats_new(tk.token_set) EXCEPT
                     !.cost = tk.cost_array[pos + 1].cost,
                     !.scanned_bytes = pos]
    IN  back_trace(tk, [stats |-> stats0, panic |-> FALSE, visited |-> <<>>], pos,
                   tk.cost_array[pos + 1].token_id)

get_stats_run(tk) ==
    LET pos == Len(tk.cost_array) - 1
        stats0 == [TokenStats_new(tk.token_set) EXCEPT
                     !.cost = tk.cost_array[pos + 1].cost,
                     !.scanned_bytes = pos]
    IN  back_trace(tk, [stats |-> stats0, panic |-> FALSE, visited |-> <<>>], pos, 0)

get_stats(tk) == get_stats_run(tk).stats
get_stats_panics(tk) == get_stats_run(tk).panic
\* the tokens the back-trace of get_stats visits, read left to right
get_stats_visited(tk) == get_stats_run(tk).visited

(***************************************************************************)
(* main.rs: split_into_chunks                                              *)
(***************************************************************************)
\* data[from..].iter().position(|&b| b == 0x13), None when there is none
position_0x13(data, from) ==
    LET hits == {p \in 0..(Len(data) - from - 1) : data[from + p + 1] = 19}
    IN  IF hits = {} THEN None ELSE CHOOSE p \in hits : \A q \in hits : p <= q

\* a slip in the loop: end = end_bound + p, the chunk ends before the 0x13
\* byte and not after it
RECURSIVE split_loop_before_delimiter(_, _, _, _)
split_loop_before_delimiter(data, chunk_size, split, acc) ==
    IF ~(split < Len(data)) THEN acc
    ELSE LET end_bound == IF split + chunk_size < Len(data)
                          THEN split + chunk_size ELSE Len(data)
             delta == position_0x13(data, end_bound)
             end == IF delta # None THEN end_bound + delta ELSE Len(data)
         IN  split_loop_before_delimiter(data, chunk_size, end, Append(acc, end))

\* the while loop of lines 595-605
RECURSIVE split_loop(_, _, _, _)
split_loop(data, chunk_size, split, acc) ==
    IF ~(split < Len(data)) THEN acc
    ELSE LET end_bound == IF split + chunk_size < Len(data)
                          THEN split + chunk_size ELSE Len(data)
             delta == position_0x13(data, end_bound)
             end == IF delta # None THEN end_bound + delta + 1 ELSE Len(data)
         IN  split_loop(data, chunk_size, end, Append(acc, end))

split_into_chunks(data, chunk_size) == split_loop(data, chunk_size, 0, <<0>>)

(***************************************************************************)
(* main.rs: worker and tokenize_file                                       *)
(***************************************************************************)
NoStats == [none |-> TRUE]
NoWorker == 0
NoJob == <<>>
Workers == DOMAIN workers

\* Every worker builds its Tokenizer from a clone of the same token set, so
\* token_set and suffix_states are the same in all of them and are kept
\* once, in tokenizer; a worker keeps the two fields that change.
WorkerTokenizer(w) ==
    [tokenizer EXCEPT !.current_state = workers[w].current_state,
                      !.cost_array = workers[w].cost_array]

WorkerInit ==
    [pc |-> "idle", pos |-> 0, job |-> NoJob, to_read |-> 0,
     current_state |-> 0, cost_array |-> <<DynState(0, 19)>>]

\* state of the scan variables while no tokenize_file call is running
ScanIdle ==
    /\ file = <<>> /\ splits = <<0>> /\ nworkers = 0
    /\ main_pc = "idle" /\ njobs = 0 /\ nresults = 0
    /\ jobs = <<>> /\ jobs_open = FALSE /\ lock = NoWorker
    /\ workers = <<>> /\ results = <<>>
    /\ total_stats = NoStats /\ emitted = <<>>

\* lines 466-481: the channels, total_stats, the workers are spawned; each
\* worker runs lines 413-419 (Tokenizer::new, File::open at position 0)
Spawn ==
    /\ main_pc = "spawn"
    /\ ~panicked
    /\ tokenizer' = Tokenizer_new(token_set)
    /\ panicked' = create_suffix_states_panics(generate_suffixes(token_set))
    /\ workers' = [w \in 1..nworkers |-> WorkerInit]
    /\ total_stats' = TokenStats_new(token_set)
    /\ jobs' = <<>> /\ jobs_open' = TRUE /\ results' = <<>>
    /\ njobs' = 0 /\ nresults' = 0 /\ lock' = NoWorker
    /\ emitted' = <<>>
    /\ main_pc' = "send"
    /\ UNCHANGED <<token_set, input, last_stats, file, splits, nworkers>>
    /\ UNCHANGED <<bpeVars, setVars>>

\* lines 485-490: one iteration, one job sent
SendJob ==
    /\ main_pc = "send"
    /\ ~panicked
    /\ njobs < Len(splits) - 1
    /\ jobs' = Append(jobs, <<splits[njobs + 1], splits[njobs + 2]>>)
    /\ njobs' = njobs + 1
    /\ UNCHANGED <<tokVars, file, splits, nworkers, main_pc, nresults, jobs_open,
                   lock, workers, results, total_stats, emitted>>
    /\ UNCHANGED <<bpeVars, setVars>>

\* line 492
DropJobsTx ==
    /\ main_pc = "send"
    /\ ~panicked
    /\ ~(njobs < Len(splits) - 1)
    /\ jobs_open' = FALSE
    /\ main_pc' = "collect"
    /\ UNCHANGED <<tokVars, file, splits, nworkers, njobs, nresults, jobs,
                   lock, workers, results, total_stats, emitted>>
    /\ UNCHANGED <<bpeVars, setVars>>

\* lines 494-504: one iteration; recv blocks while the channel is empty
RecvResult ==
    /\ main_pc = "collect"
    /\ ~panicked
    /\ nresults < njobs
    /\ results # <<>>
    /\ total_stats' = TokenStats_add(total_stats, Head(results))
    /\ panicked' = TokenStats_add_panics(total_stats, Head(results))
    /\ results' = Tail(results)
    /\ nresults' = nresults + 1
    /\ UNCHANGED <<token_set, tokenizer, input, last_stats, file, splits, nworkers,
                   main_pc, njobs, jobs, jobs_open, lock, workers, emitted>>
    /\ UNCHANGED <<bpeVars, setVars>>

\* lines 507-509 and the end of the scope: every worker is joined
JoinWorkers ==
    /\ main_pc = "collect"
    /\ ~panicked
    /\ ~(nresults < njobs)
    /\ \A w \in Workers : workers[w].pc = "exit"
    /\ main_pc' = "done"
    /\ UNCHANGED <<tokVars, file, splits, nworkers, njobs, nresults, jobs, jobs_open,
                   lock, workers, results, total_stats, emitted>>
    /\ UNCHANGED <<bpeVars, setVars>>

\* line 422: tokenizer.reset() at the top of the loop; the worker then
\* waits for the mutex
WorkerReset(w) ==
    /\ main_pc \in {"send", "collect"}
    /\ ~panicked
    /\ workers[w].pc = "idle"
    /\ workers' = [workers EXCEPT ![w] =
            [@ EXCEPT !.pc = "lock",
                      !.current_state = reset(WorkerTokenizer(w)).current_state,
                      !.cost_array = reset(WorkerTokenizer(w)).cost_array]]
    /\ UNCHANGED <<tokVars, file, splits, nworkers, main_pc, njobs, nresults, jobs,
                   jobs_open, lock, results, total_stats, emitted>>
    /\ UNCHANGED <<bpeVars, setVars>>

\* line 425: jobs_rx.lock() returns once no other worker holds the mutex
WorkerLock(w) ==
    /\ main_pc \in {"send", "collect"}
    /\ ~panicked
    /\ workers[w].pc = "lock"
    /\ lock = NoWorker
    /\ lock' = w
    /\ workers' = [workers EXCEPT ![w] = [@ EXCEPT !.pc = "recv"]]
    /\ UNCHANGED <<tokVars, file, splits, nworkers, main_pc, njobs, nresults, jobs,
                   jobs_open, results, total_stats, emitted>>
    /\ UNCHANGED <<bpeVars, setVars>>

\* a slip in the worker: the guard of the mutex is kept when the loop is
\* left on Err, so the receiver stays locked
WorkerRecv_keeps_lock(w) ==
    /\ ~panicked
    /\ workers[w].pc = "recv"
    /\ lock = w
    /\ \/ /\ jobs # <<>>
          /\ jobs' = Tail(jobs)
          /\ workers' = [workers EXCEPT ![w] =
                IF Head(jobs)[1] = Head(jobs)[2]
                THEN [@ EXCEPT !.pc = "exit"]
                ELSE [@ EXCEPT !.pc = "read", !.job = Head(jobs),
                               !.to_read = Head(jobs)[2] - Head(jobs)[1]]]
          /\ lock' = NoWorker
       \/ /\ jobs = <<>> /\ ~jobs_open
          /\ jobs' = jobs
          /\ workers' = [workers EXCEPT ![w] = [@ EXCEPT !.pc = "exit"]]
          /\ lock' = w
    /\ UNCHANGED <<tokVars, file, splits, nworkers, main_pc, njobs, nresults,
                   jobs_open, results, total_stats, emitted>>
    /\ UNCHANGED <<bpeVars, setVars>>

\* lines 425-433: recv() under the lock returns a job, or Err once the
\* channel is empty and jobs_tx dropped; it blocks otherwise
WorkerRecv(w) ==
    /\ ~panicked
    /\ workers[w].pc = "recv"
    /\ lock = w
    /\ \/ /\ jobs # <<>>
          /\ jobs' = Tail(jobs)
          /\ workers' = [workers EXCEPT ![w] =
                IF Head(jobs)[1] = Head(jobs)[2]
                THEN [@ EXCEPT !.pc = "exit"]
                ELSE [@ EXCEPT !.pc = "read", !.job = Head(jobs),
                               !.to_read = Head(jobs)[2] - Head(jobs)[1]]]
       \/ /\ jobs = <<>> /\ ~jobs_open
          /\ jobs' = jobs
          /\ workers' = [workers EXCEPT ![w] = [@ EXCEPT !.pc = "exit"]]
    /\ lock' = NoWorker
    /\ UNCHANGED <<tokVars, file, splits, nworkers, main_pc, njobs, nresults,
                   jobs_open, results, total_stats, emitted>>
    /\ UNCHANGED <<bpeVars, setVars>>

\* file.read(buf): the bytes at the file position, at most Len(buf) of
\* them; n is the number of bytes the call returns (0 only at end of file)
read_sizes(pos, buf_to_read) ==
    IF pos >= Len(file) THEN {0}
    ELSE 1..(IF buf_to_read < Len(file) - pos THEN buf_to_read ELSE Len(file) - pos)

\* lines 444-459: one iteration of the read loop
WorkerRead(w) ==
    /\ ~panicked
    /\ workers[w].pc = "read"
    /\ LET wk == workers[w]
           buf_to_read == IF wk.to_read < BUFFER_SIZE THEN wk.to_read ELSE BUFFER_SIZE
       IN  \E read_bytes \in read_sizes(wk.pos, buf_to_read) :
             IF read_bytes = 0
             THEN /\ workers' = [workers EXCEPT ![w] = [@ EXCEPT !.pc = "send"]]
                  /\ UNCHANGED panicked
             ELSE LET buffer_read == SubSeq(file, wk.pos + 1, wk.pos + read_bytes)
                      tk == process_slice(WorkerTokenizer(w), buffer_read)
                  IN  /\ panicked' = process_slice_panics(WorkerTokenizer(w), buffer_read)
                      /\ workers' = [workers EXCEPT ![w] =
                            [@ EXCEPT !.pos = wk.pos + read_bytes,
                                      !.to_read = wk.to_read - read_bytes,
                                      !.current_state = tk.current_state,
                                      !.cost_array = tk.cost_array,
                                      !.pc = IF wk.to_read - read_bytes > 0
                                             THEN "read" ELSE "send"]]
    /\ UNCHANGED <<token_set, tokenizer, input, last_stats, file, splits, nworkers,
                   main_pc, njobs, nresults, jobs, jobs_open, lock, results,
                   total_stats, emitted>>
    /\ UNCHANGED <<bpeVars, setVars>>

\* line 461
WorkerSend(w) ==
    /\ ~panicked
    /\ workers[w].pc = "send"
    /\ results' = Append(results, get_stats(WorkerTokenizer(w)))
    /\ panicked' = get_stats_panics(WorkerTokenizer(w))
    /\ emitted' = Append(emitted, [job |-> workers[w].job, worker |-> w,
                                    stats |-> get_stats(WorkerTokenizer(w))])
    /\ workers' = [workers EXCEPT ![w] = [@ EXCEPT !.pc = "idle"]]
    /\ UNCHANGED <<token_set, tokenizer, input, last_stats, file, splits, nworkers,
                   main_pc, njobs, nresults, jobs, jobs_open, lock, total_stats>>
    /\ UNCHANGED <<bpeVars, setVars>>

\* line 415: File::open returns Err and unwrap panics; the thread ends
\* before its loop, and its results_tx is dropped
WorkerFailOpen(w) ==
    /\ main_pc \in {"send", "collect"}
    /\ ~panicked
    /\ workers[w].pc = "idle"
    /\ workers[w].job = NoJob /\ workers[w].pos = 0
    /\ workers' = [workers EXCEPT ![w] = [@ EXCEPT !.pc = "failed"]]
    /\ UNCHANGED <<tokVars, file, splits, nworkers, main_pc, njobs, nresults, jobs,
                   jobs_open, lock, results, total_stats, emitted>>
    /\ UNCHANGED <<bpeVars, setVars>>

\* line 447: file.read returns Err and unwrap panics; the thread ends with
\* its job unanswered. The lock was released at line 429.
WorkerFailRead(w) ==
    /\ ~panicked
    /\ workers[w].pc = "read"
    /\ workers' = [workers EXCEPT ![w] = [@ EXCEPT !.pc = "failed"]]
    /\ UNCHANGED <<tokVars, file, splits, nworkers, main_pc, njobs, nresults, jobs,
                   jobs_open, lock, results, total_stats, emitted>>
    /\ UNCHANGED <<bpeVars, setVars>>

\* lines 507-509 with a worker that panicked: join() returns Err, unwrap
\* panics and the panic leaves tokenize_file once the scope's threads ended
JoinPanics ==
    /\ main_pc = "collect"
    /\ ~panicked
    /\ ~(nresults < njobs)
    /\ \A w \in Workers : workers[w].pc \in {"exit", "failed"}
    /\ \E w \in Workers : workers[w].pc = "failed"
    /\ main_pc' = "panicked"
    /\ UNCHANGED <<tokVars, file, splits, nworkers, njobs, nresults, jobs, jobs_open,
                   lock, workers, results, total_stats, emitted>>
    /\ UNCHANGED <<bpeVars, setVars>>

(***************************************************************************)
(* main.rs: optimize_bpe and main                                          *)
(***************************************************************************)
NoScan == [none |-> TRUE]

\* state of the training variables while optimize_bpe is not running
BpeIdle ==
    /\ ntokens = 0 /\ bpe_pc = "idle" /\ start_size = 0
    /\ prev_scan = NoScan /\ last_scan = NoScan

\* The loops of lines 526-534 and 541-548 over v[0..limit]: the first index
\* holding the largest count, and that count; (0, 0) when all are zero.
top_of(v, limit) ==
    LET idx == {i \in DOMAIN v.nz : i < limit}
    IN  IF idx = {} THEN [index |-> 0, count |-> 0]
        ELSE LET m == CHOOSE c \in {v.nz[i] : i \in idx} :
                          \A i \in idx : v.nz[i] <= c
             IN  [index |-> CHOOSE i \in idx :
                                /\ v.nz[i] = m
                                /\ \A j \in idx : v.nz[j] = m => i <= j,
                  count |-> m]

\* a slip in the choice of the candidate: >= for >, so a literal wins a tie
new_token_str_literal_on_tie(ts, stats) ==
    LET top_literal == top_of(stats.token_count, 256)
        top_pair == top_of(stats.pair_count, stats.pair_count.len)
        ifirst == top_pair.index \div ts.ntokens
        isecond == top_pair.index % ts.ntokens
        token_str == Tok(ts, ifirst).string \o Tok(ts, isecond).string
    IN  IF top_literal.count >= top_pair.count
        THEN <<top_literal.index>>
        ELSE token_str

\* lines 526-564: the string of the token the epoch adds
new_token_str(ts, stats) ==
    LET top_literal == top_of(stats.token_count, 256)
        top_pair == top_of(stats.pair_count, stats.pair_count.len)
        ifirst == top_pair.index \div ts.ntokens
        isecond == top_pair.index % ts.ntokens
        token_str == Tok(ts, ifirst).string \o Tok(ts, isecond).string
    IN  IF top_literal.count > top_pair.count
        THEN <<top_literal.index>>
        ELSE token_str

\* a slip in the loop condition of optimize_bpe: <= for <
bpe_continue_le(ts, target) ==
    ts.ntokens <= 256 + target

\* line 522: the condition of the while loop
bpe_continue(ts, target) ==
    ts.ntokens < 256 + target

\* line 522 true, line 524: an epoch starts with a tokenize_file call
BpeEpoch ==
    /\ bpe_pc = "test"
    /\ ~panicked
    /\ bpe_continue(token_set, ntokens)
    /\ bpe_pc' = "scan"
    /\ main_pc' = "spawn"
    /\ UNCHANGED <<tokVars, file, splits, nworkers, njobs, nresults, jobs, jobs_open,
                   lock, workers, results, total_stats, emitted,
                   ntokens, start_size, prev_scan, last_scan, setVars>>

\* lines 526-582: the rest of the epoch, once tokenize_file has returned
BpeAdd ==
    /\ bpe_pc = "scan"
    /\ main_pc = "done"
    /\ ~panicked
    /\ token_set' = add_token(token_set, new_token_str(token_set, total_stats), FALSE)
    /\ prev_scan' = last_scan
    /\ last_scan' = [size |-> Len(token_set.tokens), cost |-> total_stats.cost]
    /\ bpe_pc' = "test"
    /\ main_pc' = "idle"
    /\ UNCHANGED <<tokenizer, input, panicked, last_stats, file, splits, nworkers,
                   njobs, nresults, jobs, jobs_open, lock, workers, results,
                   total_stats, emitted, ntokens, start_size, setVars>>

\* line 522 false, lines 585 and 688-692: optimize_bpe returns the set and
\* main calls tokenize_file on it
BpeReturn ==
    /\ bpe_pc = "test"
    /\ ~panicked
    /\ ~bpe_continue(token_set, ntokens)
    /\ bpe_pc' = "returned"
    /\ main_pc' = "spawn"
    /\ UNCHANGED <<tokVars, file, splits, nworkers, njobs, nresults, jobs, jobs_open,
                   lock, workers, results, total_stats, emitted,
                   ntokens, start_size, prev_scan, last_scan, setVars>>

\* line 693: the cost of the returned set is printed
PrintCost ==
    /\ bpe_pc = "returned"
    /\ main_pc = "done"
    /\ ~panicked
    /\ prev_scan' = last_scan
    /\ last_scan' = [size |-> Len(token_set.tokens), cost |-> total_stats.cost]
    /\ bpe_pc' = "end"
    /\ UNCHANGED <<tokVars, scanVars, ntokens, start_size, setVars>>

(***************************************************************************)
(* tokens.rs: Token and TokenSet                                           *)
(***************************************************************************)
tokens_Token_new(string, is_literal, is_mandatory, cost) ==
    [string |-> string, is_literal |-> is_literal, is_mandatory |-> is_mandatory,
     suffix |-> None, cost |-> cost]

\* TokenSet::ntokens
tokens_ntokens(ts) == Len(ts.tokens)

\* the assert of add_mandatory_token fails
tokens_add_mandatory_token_panics(ts, string) ==
    /\ HasKey(ts.tokens_by_string, string)
    /\ ~Tok(ts, ts.tokens_by_string[string]).is_literal

tokens_add_mandatory_token(ts, string) ==
    [ts EXCEPT
        !.tokens = Append(@, tokens_Token_new(string, FALSE, TRUE, 1)),
        !.tokens_by_string = MapInsert(@, string, Len(ts.tokens))]

\* the assert of add_token fails
tokens_add_token_panics(ts, string) ==
    /\ HasKey(ts.tokens_by_string, string)
    /\ LET existing == Tok(ts, ts.tokens_by_string[string])
       IN  ~(existing.is_literal \/ existing.is_mandatory)

\* add_token without the early return of lines 54-56
tokens_add_token_always_appends(ts, string) ==
    [ts EXCEPT
        !.tokens = Append(@, tokens_Token_new(string, FALSE, FALSE, 1)),
        !.tokens_by_string = MapInsert(@, string, Len(ts.tokens))]

tokens_add_token(ts, string) ==
    IF HasKey(ts.tokens_by_string, string)
       /\ ~Tok(ts, ts.tokens_by_string[string]).is_literal
    THEN ts
    ELSE [ts EXCEPT
            !.tokens = Append(@, tokens_Token_new(string, FALSE, FALSE, 1)),
            !.tokens_by_string = MapInsert(@, string, Len(ts.tokens))]

tokens_add_literal(ts, value) ==
    [ts EXCEPT
        !.tokens = Append(@, tokens_Token_new(<<value>>, TRUE, FALSE, ts.literal_cost)),
        !.tokens_by_string = MapInsert(@, <<value>>, Len(ts.tokens))]

\* remove_token with the assert on is_mandatory left out
tokens_remove_token_panics_no_mandatory(ts, token_str) ==
    \/ ~HasKey(ts.tokens_by_string, token_str)
    \/ LET token_id == ts.tokens_by_string[token_str]
       IN  \/ ~(token_id >= 256)
           \/ Tok(ts, token_id).is_literal

\* the unwrap or one of the asserts of remove_token fails
tokens_remove_token_panics(ts, token_str) ==
    \/ ~HasKey(ts.tokens_by_string, token_str)
    \/ LET token_id == ts.tokens_by_string[token_str]
       IN  \/ ~(token_id >= 256)
           \/ Tok(ts, token_id).is_literal
           \/ Tok(ts, token_id).is_mandatory

\* a slip in the rebuild: a string that is already in the map is not
\* inserted again, so of two tokens with one string the earlier one is kept
tokens_rebuild_map_keeps_first(tokens) ==
    LET strings == {tokens[i].string : i \in 1..Len(tokens)}
    IN  [str \in strings |->
            LET ids == {i \in 1..Len(tokens) : tokens[i].string = str}
            IN  (CHOOSE i \in ids : \A j \in ids : i <= j) - 1]

\* lines 80-84: the map is cleared and filled again in the order of the
\* indices, so of two tokens with one string the later one is kept
tokens_rebuild_map(tokens) ==
    LET strings == {tokens[i].string : i \in 1..Len(tokens)}
    IN  [str \in strings |->
            LET ids == {i \in 1..Len(tokens) : tokens[i].string = str}
            IN  (CHOOSE i \in ids : \A j \in ids : j <= i) - 1]

\* remove_token without lines 80-84: the reverse map is left as it was
tokens_remove_token_keeps_map(ts, token_str) ==
    LET token_id == ts.tokens_by_string[token_str]
        tokens == [i \in 1..(Len(ts.tokens) - 1) |->
                      IF i - 1 < token_id THEN ts.tokens[i] ELSE ts.tokens[i + 1]]
    IN  [ts EXCEPT !.tokens = tokens]

tokens_remove_token(ts, token_str) ==
    LET token_id == ts.tokens_by_string[token_str]
        tokens == [i \in 1..(Len(ts.tokens) - 1) |->
                      IF i - 1 < token_id THEN ts.tokens[i] ELSE ts.tokens[i + 1]]
    IN  [ts EXCEPT !.tokens = tokens,
                   !.tokens_by_string = tokens_rebuild_map(tokens)]

\* for i in lo..=hi { token_set.add_literal(i) }, halved like add_byte_range
RECURSIVE tokens_add_literals(_, _, _)
tokens_add_literals(ts, lo, hi) ==
    IF lo > hi THEN ts
    ELSE IF lo = hi THEN tokens_add_literal(ts, lo)
    ELSE LET mid == (lo + hi) \div 2
             first == tokens_add_literals(ts, lo, mid)
         IN  IF first = first
             THEN tokens_add_literals(first, mid + 1, hi)
             ELSE first

\* for i in lo..=hi { token_set.add_mandatory_token(&[i]) }
RECURSIVE tokens_add_mandatory_range(_, _, _)
tokens_add_mandatory_range(ts, lo, hi) ==
    IF lo > hi THEN ts
    ELSE tokens_add_mandatory_range(tokens_add_mandatory_token(ts, <<lo>>), lo + 1, hi)

tokens_EmptyTokenSet(literal_cost, fallback16) ==
    [tokens |-> <<>>, tokens_by_string |-> <<>>,
     literal_cost |-> literal_cost, fallback16 |-> fallback16]

tokens_build_with_hex_literals ==
    LET a == tokens_add_literals(tokens_EmptyTokenSet(3, TRUE), 0, 255)
        b == tokens_add_mandatory_token(a, <<16>>)
        c == tokens_add_mandatory_range(b, 48, 57)
    IN  tokens_add_mandatory_range(c, 97, 102)

tokens_build_with_bin_literals ==
    LET a == tokens_add_literals(tokens_EmptyTokenSet(8, FALSE), 0, 255)
        b == tokens_add_mandatory_token(a, <<17>>)
    IN  tokens_add_mandatory_token(b, <<18>>)

\* a slip in generate_suffixes: a link that is already set is kept
tokens_generate_suffixes_keeps_links(ts) ==
    [ts EXCEPT !.tokens =
        [i \in 1..Len(ts.tokens) |->
            IF i - 1 < 256 THEN ts.tokens[i]
            ELSE LET token == ts.tokens[i]
                     start == first_suffix_start(ts.tokens_by_string, token.string, 1)
                 IN  IF start = None \/ token.suffix # None THEN token
                     ELSE [token EXCEPT
                             !.suffix = ts.tokens_by_string[SliceFrom(token.string, start)]]]]

\* tokens.rs generate_suffixes: a link is written when a proper suffix is
\* in the map, and is left as it was otherwise
tokens_generate_suffixes(ts) ==
    [ts EXCEPT !.tokens =
        [i \in 1..Len(ts.tokens) |->
            IF i - 1 < 256 THEN ts.tokens[i]
            ELSE LET token == ts.tokens[i]
                     start == first_suffix_start(ts.tokens_by_string, token.string, 1)
                 IN  IF start = None THEN token
                     ELSE [token EXCEPT
                             !.suffix = ts.tokens_by_string[SliceFrom(token.string, start)]]]]

\* The number of bytes of the UTF-8 sequence that starts bytes[from], or 0
\* when none starts there: what std::str::from_utf8 accepts (no overlong
\* forms, no surrogates, nothing above U+10FFFF).
utf8_width(bytes, from) ==
    LET n == Len(bytes) - from + 1
        b1 == bytes[from]
        cont(k, lo, hi) == k <= n /\ bytes[from + k - 1] \in lo..hi
    IN  IF b1 < 128 THEN 1
        ELSE IF b1 \in 194..223 THEN (IF cont(2, 128, 191) THEN 2 ELSE 0)
        ELSE IF b1 = 224 THEN (IF cont(2, 160, 191) /\ cont(3, 128, 191) THEN 3 ELSE 0)
        ELSE IF b1 = 237 THEN (IF cont(2, 128, 159) /\ cont(3, 128, 191) THEN 3 ELSE 0)
        ELSE IF b1 \in 225..239 THEN (IF cont(2, 128, 191) /\ cont(3, 128, 191) THEN 3 ELSE 0)
        ELSE IF b1 = 240
             THEN (IF cont(2, 144, 191) /\ cont(3, 128, 191) /\ cont(4, 128, 191)
                   THEN 4 ELSE 0)
        ELSE IF b1 \in 241..243
             THEN (IF cont(2, 128, 191) /\ cont(3, 128, 191) /\ cont(4, 128, 191)
                   THEN 4 ELSE 0)
        ELSE IF b1 = 244
             THEN (IF cont(2, 128, 143) /\ cont(3, 128, 191) /\ cont(4, 128, 191)
                   THEN 4 ELSE 0)
        ELSE 0

\* the code point of the UTF-8 sequence of w bytes at bytes[from]
utf8_code_point(bytes, from, w) ==
    LET c(k) == bytes[from + k - 1] - 128
    IN  IF w = 1 THEN bytes[from]
        ELSE IF w = 2 THEN (bytes[from] - 192) * 64 + c(2)
        ELSE IF w = 3 THEN (bytes[from] - 224) * 4096 + c(2) * 64 + c(3)
        ELSE (bytes[from] - 240) * 262144 + c(2) * 4096 + c(3) * 64 + c(4)

\* std::str::from_utf8: Ok with the text (its code points), or Err
RECURSIVE from_utf8(_, _, _)
from_utf8(bytes, from, acc) ==
    IF from > Len(bytes) THEN [ok |-> TRUE, chars |-> acc]
    ELSE LET w == utf8_width(bytes, from)
         IN  IF w = 0 THEN [ok |-> FALSE, chars |-> <<>>]
             ELSE from_utf8(bytes, from + w,
                            Append(acc, utf8_code_point(bytes, from, w)))

\* str::as_bytes of a text: the UTF-8 encoding of its code points
RECURSIVE as_bytes(_)
as_bytes(chars) ==
    IF chars = <<>> THEN <<>>
    ELSE LET cp == chars[1]
             enc == IF cp < 128 THEN <<cp>>
                    ELSE IF cp < 2048 THEN <<192 + (cp \div 64), 128 + (cp % 64)>>
                    ELSE IF cp < 65536
                         THEN <<224 + (cp \div 4096), 128 + ((cp \div 64) % 64), 128 + (cp % 64)>>
                    ELSE <<240 + (cp \div 262144), 128 + ((cp \div 4096) % 64),
                           128 + ((cp \div 64) % 64), 128 + (cp % 64)>>
         IN  enc \o as_bytes(SubSeq(chars, 2, Len(chars)))

\* Ord of Vec<u8>: a < b
RECURSIVE bytes_less(_, _)
bytes_less(a, b) ==
    IF b = <<>> THEN FALSE
    ELSE IF a = <<>> THEN TRUE
    ELSE IF a[1] # b[1] THEN a[1] < b[1]
    ELSE bytes_less(SubSeq(a, 2, Len(a)), SubSeq(b, 2, Len(b)))

\* sort_unstable leaves the strings as they were collected
sort_unstable_none(strs) ==
    strs

\* token_strs.sort_unstable(): the strings in ascending order (equal
\* strings are indistinguishable, so stability does not show)
RECURSIVE sort_unstable(_)
sort_unstable(strs) ==
    IF strs = <<>> THEN <<>>
    ELSE LET k == CHOOSE i \in 1..Len(strs) :
                      \A j \in 1..Len(strs) :
                          /\ ~bytes_less(strs[j], strs[i])
                          /\ (strs[j] = strs[i] => i <= j)
         IN  <<strs[k]>> \o sort_unstable(SubSeq(strs, 1, k - 1)
                                           \o SubSeq(strs, k + 1, Len(strs)))

\* lines 171-175: the strings of the non-literal tokens, in index order
non_literal_strings(ts) ==
    LET ids == {i \in 1..Len(ts.tokens) : ~ts.tokens[i].is_literal}
        nth[k \in 1..Cardinality(ids)] ==
            CHOOSE i \in ids : Cardinality({j \in ids : j < i}) = k - 1
    IN  [k \in 1..Cardinality(ids) |-> ts.tokens[nth[k]].string]

\* lines 180-183: a token string as a JSON string when it is UTF-8, as a
\* JSON array of its bytes otherwise
json_of_bytes(token_str) ==
    LET text == from_utf8(token_str, 1, <<>>)
    IN  IF text.ok THEN [is_string |-> TRUE, chars |-> text.chars]
        ELSE [is_string |-> FALSE, members |-> token_str]

tokens_to_json(ts) ==
    LET token_strs == sort_unstable(non_literal_strings(ts))
    IN  [tokens |-> [k \in 1..Len(token_strs) |-> json_of_bytes(token_strs[k])],
         config |-> [fallback16 |-> ts.fallback16]]

\* lines 137-145: the bytes of one entry of "tokens"
bytes_of_json(token_str) ==
    IF token_str.is_string THEN as_bytes(token_str.chars) ELSE token_str.members

\* lines 136-146: the add_token calls, in the order of the document; panic
\* is set when one of them fails its assert
RECURSIVE from_json_loop(_, _, _)
from_json_loop(run, doc_tokens, k) ==
    IF k > Len(doc_tokens) \/ run.panic THEN run
    ELSE LET string == bytes_of_json(doc_tokens[k])
         IN  IF tokens_add_token_panics(run.ts, string)
             THEN [run EXCEPT !.panic = TRUE]
             ELSE from_json_loop([run EXCEPT !.ts = tokens_add_token(run.ts, string)],
                                 doc_tokens, k + 1)

tokens_from_json_run(doc) ==
    from_json_loop([ts |-> IF doc.config.fallback16
                           THEN tokens_build_with_hex_literals
                           ELSE tokens_build_with_bin_literals,
                    panic |-> FALSE],
                   doc.tokens, 1)

tokens_from_json(doc) == tokens_from_json_run(doc).ts
tokens_from_json_panics(doc) == tokens_from_json_run(doc).panic

NoTokenSet == [none |-> TRUE]

\* state of the tokens.rs variables where no tokens::TokenSet exists
SetIdle == tset = NoTokenSet /\ tset_panicked = FALSE

SetAddToken(s) ==
    /\ tset # NoTokenSet
    /\ ~tset_panicked
    /\ IF tokens_add_token_panics(tset, s)
       THEN tset_panicked' = TRUE /\ UNCHANGED tset
       ELSE tset' = tokens_add_token(tset, s) /\ UNCHANGED tset_panicked
    /\ UNCHANGED <<tokVars, scanVars, bpeVars>>

SetRemoveToken(s) ==
    /\ tset # NoTokenSet
    /\ ~tset_panicked
    /\ IF tokens_remove_token_panics(tset, s)
       THEN tset_panicked' = TRUE /\ UNCHANGED tset
       ELSE tset' = tokens_remove_token(tset, s) /\ UNCHANGED tset_panicked
    /\ UNCHANGED <<tokVars, scanVars, bpeVars>>

SetGenerateSuffixes ==
    /\ tset # NoTokenSet
    /\ ~tset_panicked
    /\ tset' = tokens_generate_suffixes(tset)
    /\ UNCHANGED <<tokVars, scanVars, bpeVars, tset_panicked>>

\* to_json, the document written and read back, from_json
JsonRoundTrip ==
    /\ tset # NoTokenSet
    /\ ~tset_panicked
    /\ LET doc == tokens_to_json(tset)
       IN  IF tokens_from_json_panics(doc)
           THEN tset_panicked' = TRUE /\ UNCHANGED tset
           ELSE tset' = tokens_from_json(doc) /\ UNCHANGED tset_panicked
    /\ UNCHANGED <<tokVars, scanVars, bpeVars>>

(***************************************************************************)
(* Specification Spec: one tokenizer, built from a preset plus added       *)
(* tokens, fed bytes and asked for its statistics.                         *)
(***************************************************************************)
Init ==
    /\ token_set \in {build_with_hex_literals, build_with_bin_literals}
    /\ tokenizer = NoTokenizer
    /\ input = <<>>
    /\ panicked = FALSE
    /\ last_stats = NoStats
    /\ ScanIdle
    /\ BpeIdle
    /\ SetIdle

\* main.rs 663-674 and 567: a token is added to the set
AddToken(s) ==
    /\ tokenizer = NoTokenizer
    /\ ~panicked
    /\ token_set' = add_token(token_set, s, FALSE)
    /\ token_set' # token_set
    /\ UNCHANGED <<tokenizer, input, panicked, last_stats>>
    /\ UNCHANGED <<scanVars, bpeVars, setVars>>

\* worker, line 413
NewTokenizer ==
    /\ tokenizer = NoTokenizer
    /\ ~panicked
    /\ tokenizer' = Tokenizer_new(token_set)
    /\ panicked' = create_suffix_states_panics(generate_suffixes(token_set))
    /\ UNCHANGED <<token_set, input, last_stats>>
    /\ UNCHANGED <<scanVars, bpeVars, setVars>>

ProcessByte(b) ==
    /\ tokenizer # NoTokenizer
    /\ ~panicked
    /\ last_stats = NoStats
    /\ Len(input) < MaxLen
    /\ tokenizer' = process_byte(tokenizer, b)
    /\ panicked' = process_byte_panics(tokenizer, b)
    /\ input' = Append(input, b)
    /\ UNCHANGED <<token_set, last_stats>>
    /\ UNCHANGED <<scanVars, bpeVars, setVars>>

ProcessSlice(bytes) ==
    /\ tokenizer # NoTokenizer
    /\ ~panicked
    /\ last_stats = NoStats
    /\ Len(input) + Len(bytes) <= MaxLen
    /\ tokenizer' = process_slice(tokenizer, bytes)
    /\ panicked' = process_slice_panics(tokenizer, bytes)
    /\ input' = input \o bytes
    /\ UNCHANGED <<token_set, last_stats>>
    /\ UNCHANGED <<scanVars, bpeVars, setVars>>

GetStats ==
    /\ tokenizer # NoTokenizer
    /\ ~panicked
    /\ last_stats = NoStats
    /\ last_stats' = get_stats(tokenizer)
    /\ panicked' = get_stats_panics(tokenizer)
    /\ UNCHANGED <<token_set, tokenizer, input>>
    /\ UNCHANGED <<scanVars, bpeVars, setVars>>

\* worker, line 422: the statistics have been sent, the next job starts
Reset ==
    /\ tokenizer # NoTokenizer
    /\ ~panicked
    /\ last_stats # NoStats
    /\ tokenizer' = reset(tokenizer)
    /\ input' = <<>>
    /\ last_stats' = NoStats
    /\ UNCHANGED <<token_set, panicked>>
    /\ UNCHANGED <<scanVars, bpeVars, setVars>>

Slices == UNION { [1..n -> InputBytes] : n \in 1..MaxSlice }

Next ==
    \/ \E s \in AddStrings : AddToken(s)
    \/ NewTokenizer
    \/ \E b \in InputBytes : ProcessByte(b)
    \/ \E bytes \in Slices : ProcessSlice(bytes)
    \/ GetStats
    \/ Reset

Spec == Init /\ [][Next]_vars

(***************************************************************************)
(* Properties of the tokenizer (checked under Spec)                        *)
(***************************************************************************)
Last(seq) == seq[Len(seq)]
IsPrefixOf(p, s) == Len(p) <= Len(s) /\ SubSeq(s, 1, Len(p)) = p
IsSuffixOf(p, s) == Len(p) <= Len(s) /\ SliceFrom(s, Len(s) - Len(p)) = p

RECURSIVE SumOver(_, _)
SumOver(S, f) ==
    IF S = {} THEN 0
    ELSE LET x == CHOOSE y \in S : TRUE IN f[x] + SumOver(S \ {x}, f)

Min(S) == CHOOSE x \in S : \A y \in S : x <= y

\* the cost of emitting string p as one token: the cheapest token spelt p
PieceCost(ts, p) ==
    Min({token_cost(ts, ts.tokens[i]) : i \in {j \in 1..Len(ts.tokens) : ts.tokens[j].string = p}})
IsTokenString(ts, p) == \E i \in 1..Len(ts.tokens) : ts.tokens[i].string = p

\* The least cost of any split of B into tokens of ts, by enumeration of
\* every split (None when there is none).
RECURSIVE BruteMin(_, _)
BruteMin(ts, B) ==
    IF B = <<>> THEN 0
    ELSE LET firsts == {k \in 1..Len(B) :
                           /\ IsTokenString(ts, SliceTo(B, k))
                           /\ BruteMin(ts, SliceFrom(B, k)) # None}
         IN  IF firsts = {} THEN None
             ELSE Min({PieceCost(ts, SliceTo(B, k)) + BruteMin(ts, SliceFrom(B, k)) :
                       k \in firsts})

\* C1: after a reset tokenizer has consumed B (by process_slice or by
\* process_byte), the cost in the last DP cell is the least cost of any split
\* of B into tokens of the set.
C1_DpCostIsMinimum ==
    (tokenizer # NoTokenizer /\ ~panicked)
        => Last(tokenizer.cost_array).cost = BruteMin(tokenizer.token_set, input)

\* a split cheaper than one token per byte has been found for a full input
C1_Witness ==
    /\ tokenizer # NoTokenizer /\ ~panicked
    /\ Len(input) = MaxLen
    /\ Len(token_set.tokens) > Len(build_with_bin_literals.tokens)
    /\ Last(tokenizer.cost_array).cost < Len(input)
    /\ Last(tokenizer.cost_array).cost = BruteMin(tokenizer.token_set, input)

RECURSIVE ConcatStrings(_, _)
ConcatStrings(ts, ids) ==
    IF ids = <<>> THEN <<>>
    ELSE Tok(ts, ids[1]).string \o ConcatStrings(ts, SubSeq(ids, 2, Len(ids)))

\* C2: for a non-empty input B the back-trace of get_stats ends at position 0
\* without a failed index or checked_sub, the tokens it visits spell B, the
\* token counts weighted by token length sum to scanned_bytes = |B| and
\* weighted by token cost sum to the reported cost.
C2_BackTraceSpellsInput ==
    (last_stats # NoStats /\ Len(input) >= 1) =>
        LET ts == tokenizer.token_set
            tc == last_stats.token_count.nz
        IN  /\ ~panicked
            /\ ConcatStrings(ts, get_stats_visited(tokenizer)) = input
            /\ last_stats.scanned_bytes = Len(input)
            /\ SumOver(DOMAIN tc, [t \in DOMAIN tc |-> tc[t] * Len(Tok(ts, t).string)])
                 = last_stats.scanned_bytes
            /\ SumOver(DOMAIN tc, [t \in DOMAIN tc |-> tc[t] * token_cost(ts, Tok(ts, t))])
                 = last_stats.cost

\* statistics of a full input whose split uses a token longer than one byte
C2_Witness ==
    /\ last_stats # NoStats /\ ~panicked
    /\ Len(input) = MaxLen
    /\ \E t \in DOMAIN last_stats.token_count.nz : Len(Tok(tokenizer.token_set, t).string) >= 2
    /\ ConcatStrings(tokenizer.token_set, get_stats_visited(tokenizer)) = input

\* the longest suffix of x that is a prefix of some token of ts
LongestSuffixPrefix(ts, x) ==
    LET lens == {n \in 0..Len(x) :
                    \E i \in 1..Len(ts.tokens) :
                        IsPrefixOf(SliceFrom(x, Len(x) - n), ts.tokens[i].string)}
    IN  SliceFrom(x, Len(x) - (CHOOSE n \in lens : \A m \in lens : m <= n))

\* C4: following the next tables from state 0 through x ends in the state
\* whose string is the longest suffix of x that is a prefix of some token.
C4_StateIsLongestSuffixPrefix ==
    (tokenizer # NoTokenizer /\ ~panicked) =>
        tokenizer.suffix_states[tokenizer.current_state + 1].suffix
            = LongestSuffixPrefix(tokenizer.token_set, input)

\* the automaton has fallen back to a proper suffix that is longer than the
\* last byte
C4_Witness ==
    /\ tokenizer # NoTokenizer /\ ~panicked
    /\ Len(input) >= 3
    /\ LET s == tokenizer.suffix_states[tokenizer.current_state + 1].suffix
       IN  /\ Len(s) >= 2
           /\ Len(s) < Len(input)
           /\ s = LongestSuffixPrefix(tokenizer.token_set, input)

\* the chain of suffix links from the token of state s lists, in strictly
\* decreasing length, exactly the lengths of the tokens that are suffixes of
\* the string of s
ChainComplete(tk, s) ==
    LET ts == tk.token_set
        chain == suffix_chain(ts, s.token_id)
    IN  /\ \A i \in 1..(Len(chain) - 1) :
              Len(Tok(ts, chain[i]).string) > Len(Tok(ts, chain[i + 1]).string)
        /\ {Len(Tok(ts, chain[i]).string) : i \in 1..Len(chain)}
             = {Len(ts.tokens[j].string) :
                  j \in {k \in 1..Len(ts.tokens) : IsSuffixOf(ts.tokens[k].string, s.suffix)}}

\* C5: at every automaton state reached after at least one byte (every state
\* but state 0 is reached by reading its own string) the suffix-link walk from
\* the state's token visits, longest first, exactly the lengths of the tokens
\* that are suffixes of the state's string.
C5_SuffixChainComplete ==
    (tokenizer # NoTokenizer /\ ~panicked) =>
        /\ Len(input) >= 1 =>
              ChainComplete(tokenizer, tokenizer.suffix_states[tokenizer.current_state + 1])
        /\ Len(input) = 0 =>
              \A i \in 2..Len(tokenizer.suffix_states) :
                  ChainComplete(tokenizer, tokenizer.suffix_states[i])

\* a state where the walk visits three tokens
C5_Witness ==
    /\ tokenizer # NoTokenizer /\ ~panicked
    /\ Len(input) >= 3
    /\ Len(suffix_chain(tokenizer.token_set,
              tokenizer.suffix_states[tokenizer.current_state + 1].token_id)) >= 3
    /\ ChainComplete(tokenizer, tokenizer.suffix_states[tokenizer.current_state + 1])

(***************************************************************************)
(* Specification SpecScan: one call of tokenize_file, as main makes it:    *)
(* on the chunks split_into_chunks returns for the data file.              *)
(***************************************************************************)
Files == UNION { [1..n -> FileBytes] : n \in 0..MaxFile }
\* token sets the scan runs under: the bin preset, and it with "aa" added
ScanTokenSets ==
    { build_with_bin_literals, add_token(build_with_bin_literals, <<97, 97>>, FALSE) }

InitScan ==
    /\ token_set \in ScanTokenSets
    /\ tokenizer = NoTokenizer
    /\ input = <<>>
    /\ panicked = FALSE
    /\ last_stats = NoStats
    /\ file \in Files
    /\ \E chunk_size \in ChunkSizes : splits = split_into_chunks(file, chunk_size)
    /\ nworkers \in 1..MaxWorkers
    /\ main_pc = "spawn"
    /\ njobs = 0 /\ nresults = 0
    /\ jobs = <<>> /\ jobs_open = FALSE /\ lock = NoWorker
    /\ workers = <<>> /\ results = <<>>
    /\ total_stats = NoStats /\ emitted = <<>>
    /\ BpeIdle
    /\ SetIdle

NextScan ==
    \/ Spawn
    \/ SendJob
    \/ DropJobsTx
    \/ RecvResult
    \/ JoinWorkers
    \/ \E w \in Workers : WorkerReset(w)
    \/ \E w \in Workers : WorkerLock(w)
    \/ \E w \in Workers : WorkerRecv(w)
    \/ \E w \in Workers : WorkerRead(w)
    \/ \E w \in Workers : WorkerSend(w)

SpecScan == InitScan /\ [][NextScan]_vars

(***************************************************************************)
(* Properties of tokenize_file (checked under SpecScan)                    *)
(***************************************************************************)
\* the statistics of one Tokenizer run over the file bytes [start, finish)
ChunkStats(job) ==
    get_stats(process_slice(reset(tokenizer), SubSeq(file, job[1] + 1, job[2])))

\* C3: the statistics a worker emits for a job (start, finish) are those of
\* the file bytes at [start, finish), whichever jobs the worker handled
\* before, and the summed total has scanned_bytes equal to the file length.
C3_EmittedStatsAreOfTheJob ==
    /\ \A i \in 1..Len(emitted) : emitted[i].stats = ChunkStats(emitted[i].job)
    /\ main_pc = "done" => total_stats.scanned_bytes = Len(file)

\* C9: when the file is one chunk, the total tokenize_file returns is the
\* statistics of one Tokenizer run over the whole file, for every number of
\* workers and whichever worker takes the job.
C9_SingleChunkTotal ==
    (main_pc = "done" /\ Len(splits) = 2) =>
        /\ ~panicked
        /\ total_stats = ChunkStats(<<0, Len(file)>>)

\* the second of two workers has taken the only job, a file of three bytes
\* or more, and used a two-byte token
C9_Witness ==
    /\ main_pc = "done" /\ Len(splits) = 2 /\ ~panicked
    /\ nworkers >= 2
    /\ Len(emitted) = 1 /\ emitted[1].worker = 2
    /\ Len(file) >= 3
    /\ \E t \in DOMAIN total_stats.token_count.nz :
           Len(Tok(tokenizer.token_set, t).string) = 2
    /\ total_stats = ChunkStats(<<0, Len(file)>>)

\* entry i of the element-wise sum of the vectors vs[k], k in 1..n
SumAt(vs, n, i) == SumOver(1..n, [k \in 1..n |-> VecGet(vs[k], i)])
VecSumIs(v, vs, n) ==
    LET idx == (DOMAIN v.nz) \cup UNION {DOMAIN vs[k].nz : k \in 1..n}
    IN  /\ \A i \in idx : VecGet(v, i) = SumAt(vs, n, i)
        /\ \A i \in DOMAIN v.nz : VecInRange(v, i)

\* C10: TokenStats::add is commutative and associative on the statistics of
\* one token set, and the total of tokenize_file is the element-wise sum of
\* the statistics received so far, in whatever order they arrived.
C10_TotalIsElementwiseSum ==
    (main_pc \in {"collect", "done"} /\ ~panicked) =>
        /\ VecSumIs(total_stats.token_count,
                    [k \in 1..nresults |-> emitted[k].stats.token_count], nresults)
        /\ VecSumIs(total_stats.pair_count,
                    [k \in 1..nresults |-> emitted[k].stats.pair_count], nresults)
        /\ total_stats.cost
             = SumOver(1..nresults, [k \in 1..nresults |-> emitted[k].stats.cost])
        /\ total_stats.scanned_bytes
             = SumOver(1..nresults, [k \in 1..nresults |-> emitted[k].stats.scanned_bytes])
        /\ \A i, j \in 1..Len(emitted) :
              /\ TokenStats_add(emitted[i].stats, emitted[j].stats)
                   = TokenStats_add(emitted[j].stats, emitted[i].stats)
              /\ TokenStats_add(TokenStats_add(total_stats, emitted[i].stats),
                                emitted[j].stats)
                   = TokenStats_add(total_stats,
                                    TokenStats_add(emitted[i].stats, emitted[j].stats))

\* two results have arrived in the order opposite to that of their jobs
C10_Witness ==
    /\ main_pc = "done" /\ ~panicked
    /\ nresults = 2
    /\ emitted[1].job[1] > emitted[2].job[1]
    /\ emitted[1].stats # emitted[2].stats
    /\ total_stats.cost = emitted[1].stats.cost + emitted[2].stats.cost

(***************************************************************************)
(* Specification SpecTrain: main from the call of split_into_chunks on:    *)
(* optimize_bpe, whose every epoch calls tokenize_file, then the final     *)
(* tokenize_file call.                                                     *)
(***************************************************************************)
\* the data files: empty, "aa", and 0x11 0x13 0x13 (two chunks)
TrainFiles == { <<>>, <<97, 97>>, <<17, 19, 19>> }
\* the sets optimize_bpe starts from: the presets, and bin with "aa" loaded
TrainTokenSets ==
    { build_with_bin_literals, build_with_hex_literals,
      add_token(build_with_bin_literals, <<97, 97>>, FALSE) }
\* available_parallelism() of the training runs: one worker, and two that
\* share the jobs
TrainWorkers == {1, 2}

InitTrain ==
    /\ token_set \in TrainTokenSets
    /\ tokenizer = NoTokenizer
    /\ input = <<>>
    /\ panicked = FALSE
    /\ last_stats = NoStats
    /\ file \in TrainFiles
    /\ \E chunk_size \in ChunkSizes : splits = split_into_chunks(file, chunk_size)
    /\ nworkers \in TrainWorkers
    /\ main_pc = "idle"
    /\ njobs = 0 /\ nresults = 0
    /\ jobs = <<>> /\ jobs_open = FALSE /\ lock = NoWorker
    /\ workers = <<>> /\ results = <<>>
    /\ total_stats = NoStats /\ emitted = <<>>
    /\ start_size = Len(token_set.tokens)
    /\ ntokens \in {0} \cup {start_size - 256 + k : k \in 0..MaxEpochs}
    /\ bpe_pc = "test"
    /\ prev_scan = NoScan /\ last_scan = NoScan
    /\ SetIdle

NextTrain ==
    \/ BpeEpoch
    \/ BpeAdd
    \/ BpeReturn
    \/ PrintCost
    \/ NextScan

SpecTrain == InitTrain /\ [][NextTrain]_vars

\* the set optimize_bpe was given: the sets it starts from differ in their
\* number of tokens, which start_size records
GivenTokenSet == CHOOSE ts \in TrainTokenSets : Len(ts.tokens) = start_size

\* C6: the set optimize_bpe returns has at most 256 + ntokens tokens (the
\* claim as made).
C6_ReturnedAtMostTarget ==
    bpe_pc \in {"returned", "end"} => Len(token_set.tokens) <= 256 + ntokens

\* C6 as amended: the set optimize_bpe returns has at most 256 + ntokens
\* tokens or, when the set it was given has that many or more, is the set it
\* was given (tokens, reverse map, suffix fields), no epoch having run.
C6_ReturnedAtMostTargetOrStart ==
    bpe_pc \in {"returned", "end"} =>
        /\ Len(token_set.tokens) = token_set.ntokens
        /\ Len(token_set.tokens) <=
              (IF start_size > 256 + ntokens THEN start_size ELSE 256 + ntokens)
        /\ start_size >= 256 + ntokens =>
              /\ token_set = GivenTokenSet
              /\ prev_scan = NoScan
              /\ bpe_pc = "returned" => last_scan = NoScan

\* optimize_bpe has returned a set it grew up to the target
C6_Witness ==
    /\ bpe_pc = "returned"
    /\ Len(token_set.tokens) > start_size
    /\ Len(token_set.tokens) = 256 + ntokens

\* C8: when an epoch has added a token, the total cost tokenize_file returns
\* under the larger set is at most the one it returned under the smaller.
C8_CostNonIncreasing ==
    (prev_scan # NoScan /\ last_scan # NoScan /\ last_scan.size = prev_scan.size + 1)
        => last_scan.cost <= prev_scan.cost

(***************************************************************************)
(* Specification SpecSet: the token sets of both files under the calls     *)
(* that change them: add_token, as an epoch of optimize_bpe calls it, on   *)
(* the main.rs set; add_token, remove_token and generate_suffixes on the   *)
(* tokens.rs set.                                                          *)
(***************************************************************************)
\* 0x11 (mandatory in bin), 'a' (mandatory in hex), 'b' (literal only), "ab"
SetStrings == { <<17>>, <<97>>, <<98>>, <<97, 98>> }

InitSet ==
    /\ token_set \in {build_with_hex_literals, build_with_bin_literals}
    /\ tokenizer = NoTokenizer
    /\ input = <<>>
    /\ panicked = FALSE
    /\ last_stats = NoStats
    /\ ScanIdle
    /\ BpeIdle
    /\ tset = (IF token_set.literal_cost = 3 THEN tokens_build_with_hex_literals
                                             ELSE tokens_build_with_bin_literals)
    /\ tset_panicked = FALSE

NextSet ==
    \/ \E s \in AddStrings : AddToken(s)
    \/ \E s \in SetStrings : SetAddToken(s)
    \/ \E s \in SetStrings : SetRemoveToken(s)
    \/ SetGenerateSuffixes

SpecSet == InitSet /\ [][NextSet]_vars

\* tokens 0..255 of the sequence are the literals of the bytes 0..255
LiteralBlock(tokens) ==
    /\ Len(tokens) >= 256
    /\ \A b \in 0..255 : tokens[b + 1].string = <<b>> /\ tokens[b + 1].is_literal

\* the strings the preset adds as mandatory tokens
MandatoryStrings(hex) ==
    IF hex THEN {<<16>>} \cup {<<b>> : b \in (48..57) \cup (97..102)}
    ELSE {<<17>>, <<18>>}

\* every mandatory string of the preset is the string of a non-literal token
MandatoryPresent(tokens, hex) ==
    \A str \in MandatoryStrings(hex) :
        \E i \in 257..Len(tokens) : tokens[i].string = str /\ ~tokens[i].is_literal

\* C7: after any successful add_token and remove_token calls on a preset,
\* and any add_token calls of training epochs, tokens 0..255 are the literals
\* of the bytes 0..255 and every mandatory token of the preset is present as
\* a non-literal token.
C7_LiteralsAndMandatoryKept ==
    /\ LiteralBlock(tset.tokens)
    /\ MandatoryPresent(tset.tokens, tset.fallback16)
    /\ \A i \in 257..Len(tset.tokens) :
          tset.tokens[i].string \in MandatoryStrings(tset.fallback16)
              => tset.tokens[i].is_mandatory
    /\ LiteralBlock(token_set.tokens)
    /\ MandatoryPresent(token_set.tokens, token_set.literal_cost = 3)

\* tokens have been added to both sets, and one has been removed from the
\* tokens.rs set from under a token that stays
C7_Witness ==
    /\ ~tset_panicked
    /\ Len(token_set.tokens) > (IF token_set.literal_cost = 3 THEN 273 ELSE 258)
    /\ \E i \in 257..Len(tset.tokens) :
          /\ ~tset.tokens[i].is_mandatory
          /\ tset.tokens[i].suffix # None
          /\ tset.tokens[i].suffix >= Len(tset.tokens)

(***************************************************************************)
(* Specification SpecScanFair: SpecScan where the main thread and every    *)
(* worker thread that can take a step eventually takes one.                *)
(***************************************************************************)
\* The conditions under which the steps that compute a Tokenizer or
\* statistics can be taken: the guards of Spawn, RecvResult, WorkerRead and
\* WorkerSend. Each of these steps changes main_pc, nresults or the
\* worker's pc, so its guard is ENABLED <<step>>_vars.
Spawn_enabled == main_pc = "spawn" /\ ~panicked
RecvResult_enabled ==
    main_pc = "collect" /\ ~panicked /\ nresults < njobs /\ results # <<>>
WorkerRead_enabled(w) == w \in Workers /\ ~panicked /\ workers[w].pc = "read"
WorkerSend_enabled(w) == w \in Workers /\ ~panicked /\ workers[w].pc = "send"

\* Weak fairness of the main thread's steps: the thread of tokenize_file
\* runs whenever it is not blocked. For Spawn and RecvResult weak fairness
\* is written out ([]<>~ENABLED <<A>>_vars \/ []<><<A>>_vars) with the guard
\* for ENABLED.
FairMain ==
    /\ WF_vars(SendJob \/ DropJobsTx \/ JoinWorkers)
    /\ ([]<>(~Spawn_enabled) \/ []<><<Spawn>>_vars)
    /\ ([]<>(~RecvResult_enabled) \/ []<><<RecvResult>>_vars)

\* Weak fairness of the steps of every worker thread, likewise
FairWorkers ==
    \A w \in 1..(MaxWorkers + 1) :
        /\ WF_vars(w \in Workers /\ (WorkerReset(w) \/ WorkerLock(w) \/ WorkerRecv(w)))
        /\ ([]<>(~WorkerRead_enabled(w))
               \/ []<><<w \in Workers /\ WorkerRead(w)>>_vars)
        /\ ([]<>(~WorkerSend_enabled(w))
               \/ []<><<w \in Workers /\ WorkerSend(w)>>_vars)

FairScan == FairMain /\ FairWorkers

\* the files of the fair scans: no job, one job, two jobs, three jobs
FairFiles == { <<>>, <<97>>, <<19, 19, 97>>, <<19, 19, 19, 19, 97>> }

InitScanFair ==
    /\ token_set = build_with_bin_literals
    /\ tokenizer = NoTokenizer
    /\ input = <<>>
    /\ panicked = FALSE
    /\ last_stats = NoStats
    /\ file \in FairFiles
    /\ splits = split_into_chunks(file, 1)
    /\ nworkers \in 1..MaxWorkers
    /\ main_pc = "spawn"
    /\ njobs = 0 /\ nresults = 0
    /\ jobs = <<>> /\ jobs_open = FALSE /\ lock = NoWorker
    /\ workers = <<>> /\ results = <<>>
    /\ total_stats = NoStats /\ emitted = <<>>
    /\ BpeIdle
    /\ SetIdle

SpecScanFair == InitScanFair /\ [][NextScan]_vars /\ FairScan

\* the jobs sent so far, those still in the channel, those a worker holds
\* and those whose statistics have been sent
JobsSent == {<<splits[i], splits[i + 1]>> : i \in 1..njobs}
JobsQueued == {jobs[i] : i \in 1..Len(jobs)}
JobHolders == {w \in Workers : workers[w].pc \in {"read", "send"}}
JobsHeld == {workers[w].job : w \in JobHolders}
JobsEmitted == {emitted[i].job : i \in 1..Len(emitted)}

\* every job sent is in exactly one place, once
JobsAccounted ==
    /\ JobsQueued \cup JobsHeld \cup JobsEmitted = JobsSent
    /\ Len(jobs) + Cardinality(JobHolders) + Len(emitted) = njobs
    /\ Cardinality(JobsSent) = njobs
    /\ Len(results) + nresults = Len(emitted)

\* tokenize_file has returned: all results received, all workers joined
ScanReturned ==
    /\ main_pc = "done"
    /\ njobs = Len(splits) - 1
    /\ nresults = njobs /\ Len(emitted) = njobs
    /\ jobs = <<>> /\ results = <<>> /\ lock = NoWorker
    /\ \A w \in Workers : workers[w].pc = "exit"

\* C11: with no failing worker and fair scheduling, every job sent is taken
\* by exactly one worker and answered by exactly one TokenStats, and
\* tokenize_file eventually has received all njobs results, joined every
\* worker (each has seen the closed channel and left its loop) and returned.
C11_ScanCompletes ==
    /\ [](main_pc \in {"send", "collect", "done"} => JobsAccounted)
    /\ [](main_pc = "done" => ScanReturned)
    /\ <>(main_pc = "done")

\* tokenize_file has returned after two workers each answered one of two
\* jobs, and a third job was answered as well
C11_Witness ==
    /\ ScanReturned /\ ~panicked
    /\ njobs >= 2 /\ nworkers >= 2
    /\ \E i, j \in 1..Len(emitted) : emitted[i].worker # emitted[j].worker

(***************************************************************************)
(* Specification SpecScanFail: tokenize_file where a worker may fail to    *)
(* open the file or to read from it.                                       *)
(***************************************************************************)
NextScanFail ==
    \/ NextScan
    \/ JoinPanics
    \/ \E w \in Workers : WorkerFailOpen(w)
    \/ \E w \in Workers : WorkerFailRead(w)

SpecScanFail == InitScanFair /\ [][NextScanFail]_vars

\* The main thread is in results_rx.recv() (line 495), the results channel
\* is empty and every worker thread has ended. The channel is not closed,
\* since tokenize_file keeps its own results_tx (line 468) until it returns,
\* so recv() never returns.
MainBlockedForEver ==
    /\ main_pc = "collect" /\ nresults < njobs /\ results = <<>>
    /\ \A w \in Workers : workers[w].pc \in {"exit", "failed"}

\* C12: when a worker fails opening or reading the file, the main thread of
\* tokenize_file never blocks for ever on the results channel, and it does
\* not return a total as if nothing had failed.
C12_MainNeverBlocksOnFailure ==
    /\ ~MainBlockedForEver
    /\ main_pc = "done" => \A w \in Workers : workers[w].pc # "failed"

\* C13: at every moment of tokenize_file at most 2 jobs are in the jobs
\* channel, sent and not yet received by a worker.
C13_JobsQueueAtMostTwo ==
    Len(jobs) <= 2

\* string is the string of a non-literal token of the sequence
HasNonLiteral(tokens, string) ==
    \E i \in 1..Len(tokens) : tokens[i].string = string /\ ~tokens[i].is_literal

\* what C14 asks of one add_token call that took the set from old to new
AddTokenContract(old, new, string) ==
    IF HasNonLiteral(old.tokens, string)
    THEN /\ new.tokens = old.tokens
         /\ new.tokens_by_string = old.tokens_by_string
    ELSE /\ Len(new.tokens) = Len(old.tokens) + 1
         /\ SubSeq(new.tokens, 1, Len(old.tokens)) = old.tokens
         /\ Last(new.tokens).string = string
         /\ ~Last(new.tokens).is_literal
         /\ new.tokens_by_string[string] = Len(old.tokens)
         /\ \A k \in DOMAIN old.tokens_by_string :
               k # string => new.tokens_by_string[k] = old.tokens_by_string[k]
         /\ DOMAIN new.tokens_by_string = DOMAIN old.tokens_by_string \cup {string}

\* C14: add_token(s) on a set where s is only a literal (or absent) appends
\* a non-literal token the reverse map then points to; on a set where s is
\* a non-literal token, optional or mandatory, it returns normally and
\* leaves the tokens and the reverse map as they were. Both in tokens.rs
\* and in main.rs.
C14_AddTokenContract ==
    /\ \A string \in SetStrings :
          /\ ~tokens_add_token_panics(tset, string)
          /\ AddTokenContract(tset, tokens_add_token(tset, string), string)
    /\ \A string \in SetStrings \cup AddStrings :
          AddTokenContract(token_set, add_token(token_set, string, FALSE), string)

\* string is the string of an optional (non-literal, non-mandatory) token
HasOptional(tokens, string) ==
    \E i \in 1..Len(tokens) :
        /\ tokens[i].string = string
        /\ ~tokens[i].is_literal /\ ~tokens[i].is_mandatory

\* the reverse map sends every string of the sequence to an index that
\* holds it, the non-literal one if there is one, and has no other key
MapResolves(ts) ==
    /\ DOMAIN ts.tokens_by_string = {ts.tokens[i].string : i \in 1..Len(ts.tokens)}
    /\ LET nonlit == {ts.tokens[i].string :
                         i \in {j \in 1..Len(ts.tokens) : ~ts.tokens[j].is_literal}}
       IN  \A str \in DOMAIN ts.tokens_by_string :
             LET id == ts.tokens_by_string[str]
             IN  /\ id \in 0..(Len(ts.tokens) - 1)
                 /\ Tok(ts, id).string = str
                 /\ str \in nonlit => ~Tok(ts, id).is_literal

\* the sequence without its entry at (0-based) index id
WithoutIndex(tokens, id) ==
    SubSeq(tokens, 1, id) \o SubSeq(tokens, id + 2, Len(tokens))

\* the outcome of remove_token(string) on the set ts
RemoveOutcome(ts, string) ==
    /\ tokens_remove_token_panics(ts, string) <=> ~HasOptional(ts.tokens, string)
    /\ HasOptional(ts.tokens, string) =>
          LET new == tokens_remove_token(ts, string)
          IN  /\ new.tokens = WithoutIndex(ts.tokens, ts.tokens_by_string[string])
              /\ ~HasOptional(new.tokens, string)
              /\ MapResolves(new)

\* C15: remove_token(s) fails, with the tokens and the reverse map left as
\* they were, when s is absent, when s resolves to a literal and when s
\* resolves to a mandatory token; it succeeds, removing the token, exactly
\* when s is an optional non-literal token.
C15_RemoveTokenOutcome ==
    /\ [](tset # NoTokenSet =>
            /\ MapResolves(tset)
            /\ \A string \in SetStrings \cup {<<120>>} : RemoveOutcome(tset, string))
    /\ [][(tset_panicked' /\ ~tset_panicked) => tset' = tset]_vars

\* "ab" carries a link written while an optional token "b" was in the set,
\* and "b" has been removed since
C15_Witness ==
    /\ ~tset_panicked
    /\ ~HasNonLiteral(tset.tokens, <<98>>)
    /\ \E i \in 257..Len(tset.tokens) :
          tset.tokens[i].string = <<97, 98>> /\ tset.tokens[i].suffix >= 256

(***************************************************************************)
(* Specification SpecTrainAb: main on the corpus "abababababab" with the   *)
(* bin preset, for the targets 2, 3 and 4.                                 *)
(***************************************************************************)
AbCorpus == <<97, 98, 97, 98, 97, 98, 97, 98, 97, 98, 97, 98>>

InitTrainAb ==
    /\ token_set = build_with_bin_literals
    /\ tokenizer = NoTokenizer
    /\ input = <<>>
    /\ panicked = FALSE
    /\ last_stats = NoStats
    /\ file = AbCorpus
    /\ splits = split_into_chunks(file, CHUNK_SIZE)
    /\ nworkers \in 1..MaxWorkers
    /\ main_pc = "idle"
    /\ njobs = 0 /\ nresults = 0
    /\ jobs = <<>> /\ jobs_open = FALSE /\ lock = NoWorker
    /\ workers = <<>> /\ results = <<>>
    /\ total_stats = NoStats /\ emitted = <<>>
    /\ start_size = Len(token_set.tokens)
    /\ ntokens \in {2, 3, 4}
    /\ bpe_pc = "test"
    /\ prev_scan = NoScan /\ last_scan = NoScan
    /\ SetIdle

SpecTrainAb == InitTrainAb /\ [][NextTrain]_vars

\* string is the string of a token of the set
HasToken(ts, string) == \E i \in 1..Len(ts.tokens) : ts.tokens[i].string = string

\* C16 (the claim as made): training on "abababababab" with the bin preset
\* and ntokens = 2 returns a vocabulary that contains "ab" and "abab", and
\* the final cost is 3 or 4.
C16_AbCorpusTargetTwo ==
    (bpe_pc = "end" /\ ntokens = 2) =>
        /\ HasToken(token_set, <<97, 98>>)
        /\ HasToken(token_set, <<97, 98, 97, 98>>)
        /\ last_scan.cost \in {3, 4}

\* C16 as amended: with ntokens = 4 (the two mandatory tokens of the preset
\* count toward the target) training runs two epochs, which add "ab" and
\* then "abab", and the final cost is 3; with ntokens = 2 no epoch runs, the
\* preset is returned and the final cost is 12 * 8 = 96.
C16_AbCorpusTargetFour ==
    bpe_pc = "end" =>
        /\ ~panicked
        /\ ntokens = 4 =>
              /\ Len(token_set.tokens) = start_size + 2
              /\ token_set.tokens[259].string = <<97, 98>>
              /\ token_set.tokens[260].string = <<97, 98, 97, 98>>
              /\ prev_scan = [size |-> 259, cost |-> 6]
              /\ last_scan = [size |-> 260, cost |-> 3]
        /\ ntokens = 2 =>
              /\ token_set = build_with_bin_literals
              /\ prev_scan = NoScan
              /\ last_scan = [size |-> 258, cost |-> 96]

\* main has ended after two epochs, every scan run by two workers or more
C16_Witness ==
    /\ bpe_pc = "end" /\ ntokens = 4 /\ nworkers >= 2
    /\ file = AbCorpus
    /\ HasToken(token_set, <<97, 98, 97, 98>>)
    /\ last_scan.cost = 3

\* the entries of the sequence at the (1-based) indices ids have pairwise
\* different strings
StringsUnique(tokens, ids) ==
    \A i, j \in ids : tokens[i].string = tokens[j].string => i = j

Literals(tokens) == {i \in 1..Len(tokens) : tokens[i].is_literal}
NonLiterals(tokens) == {i \in 1..Len(tokens) : ~tokens[i].is_literal}

\* C17 (the claim as made): in every reachable tokens.rs set no two entries
\* of the token sequence have the same string.
C17_AllStringsUnique ==
    StringsUnique(tset.tokens, 1..Len(tset.tokens))

\* C17 as amended: in every reachable tokens.rs set no two literal entries
\* and no two non-literal entries have the same string (a string can be in
\* the sequence twice, once as a literal and once as a non-literal token),
\* and a successful add_mandatory_token call keeps it so.
C17_StringsUniquePerKind ==
    /\ StringsUnique(tset.tokens, Literals(tset.tokens))
    /\ StringsUnique(tset.tokens, NonLiterals(tset.tokens))
    /\ \A string \in SetStrings :
          ~tokens_add_mandatory_token_panics(tset, string) =>
              LET new == tokens_add_mandatory_token(tset, string)
              IN  StringsUnique(new.tokens, NonLiterals(new.tokens))

\* the set holds the optional tokens "b" and "ab", and "b" is in it twice:
\* as the literal 98 and as an optional token
C17_Witness ==
    /\ ~tset_panicked
    /\ HasOptional(tset.tokens, <<98>>)
    /\ HasOptional(tset.tokens, <<97, 98>>)
    /\ tset.tokens[99].string = <<98>> /\ tset.tokens[99].is_literal

(***************************************************************************)
(* Specification SpecJson: a tokens.rs set under add_token, remove_token   *)
(* and the round trip to_json / from_json.                                 *)
(***************************************************************************)
\* "b", "ab", the byte 0xFF (not UTF-8) and "\u00E9" (two bytes of UTF-8)
JsonStrings == { <<98>>, <<97, 98>>, <<255>>, <<195, 169>> }

InitJson ==
    /\ token_set = build_with_bin_literals
    /\ tokenizer = NoTokenizer
    /\ input = <<>>
    /\ panicked = FALSE
    /\ last_stats = NoStats
    /\ ScanIdle
    /\ BpeIdle
    /\ tset \in {tokens_build_with_hex_literals, tokens_build_with_bin_literals}
    /\ tset_panicked = FALSE

NextJson ==
    \/ \E s \in JsonStrings : SetAddToken(s)
    \/ \E s \in JsonStrings : SetRemoveToken(s)
    \/ JsonRoundTrip

SpecJson == InitJson /\ [][NextJson]_vars

\* what C18 compares of a token
TokenFields(token) ==
    [string |-> token.string, is_literal |-> token.is_literal,
     is_mandatory |-> token.is_mandatory, cost |-> token.cost]

\* the main.rs TokenSet with the tokens of a tokens.rs set
AsMainSet(ts) ==
    [tokens |-> [i \in 1..Len(ts.tokens) |->
                    Token_new(ts.tokens[i].string, ts.tokens[i].is_literal)],
     tokens_by_string |-> ts.tokens_by_string,
     literal_cost |-> ts.literal_cost,
     ntokens |-> Len(ts.tokens)]

\* the segmentation of bytes under the set: its cost and its token strings
Segmentation(ts, bytes) ==
    LET tk == process_slice(Tokenizer_new(AsMainSet(ts)), bytes)
        visited == get_stats_visited(tk)
    IN  [cost |-> Last(tk.cost_array).cost,
         strings |-> [k \in 1..Len(visited) |-> Tok(tk.token_set, visited[k]).string]]

JsonInputs == { <<97, 98, 98>>, <<98, 195, 169, 255>> }

SameSegmentation(a, b) ==
    \A bytes \in JsonInputs : Segmentation(a, bytes) = Segmentation(b, bytes)

\* the strings of the optional tokens, in index order
OptionalStrings(ts) ==
    LET strs == non_literal_strings(ts)
        keep == {k \in 1..Len(strs) : HasOptional(ts.tokens, strs[k])}
        nth[k \in 1..Cardinality(keep)] ==
            CHOOSE i \in keep : Cardinality({j \in keep : j < i}) = k - 1
    IN  [k \in 1..Cardinality(keep) |-> strs[nth[k]]]

Ascending(strs) ==
    \A i, j \in 1..Len(strs) : i < j => bytes_less(strs[i], strs[j])

SeqRange(seq) == {seq[i] : i \in 1..Len(seq)}

\* C18 (the claim as made): from_json(to_json(T)) is T: the same preset
\* and, beyond the literal block, the same tokens (string, mandatory flag,
\* cost) at the same indices, with the same segmentation of any input.
C18_RoundTripIdentical ==
    LET doc == tokens_to_json(tset)
        new == tokens_from_json(doc)
    IN  /\ ~tokens_from_json_panics(doc)
        /\ new.fallback16 = tset.fallback16
        /\ Len(new.tokens) = Len(tset.tokens)
        /\ \A i \in 257..Len(tset.tokens) :
              TokenFields(new.tokens[i]) = TokenFields(tset.tokens[i])
        /\ SameSegmentation(new, tset)

\* C18 as amended: from_json(to_json(T)) has the preset of T, the literal
\* block and the mandatory tokens of T at the same indices, and after them
\* the optional tokens of T (string, cost) in ascending order of their
\* strings, not at the indices they have in T; it is T (links aside) exactly
\* when T holds its optional tokens in ascending order. It segments every
\* input as T does, and a second round trip changes nothing.
C18_RoundTripSortsOptional ==
    LET doc == tokens_to_json(tset)
        new == tokens_from_json(doc)
        first == Len(tset.tokens) - Len(OptionalStrings(tset))
    IN  /\ ~tokens_from_json_panics(doc)
        /\ new.fallback16 = tset.fallback16
        /\ new.literal_cost = tset.literal_cost
        /\ Len(new.tokens) = Len(tset.tokens)
        /\ \A i \in 1..first :
              TokenFields(new.tokens[i]) = TokenFields(tset.tokens[i])
        /\ \A i \in (first + 1)..Len(new.tokens) :
              /\ ~new.tokens[i].is_literal /\ ~new.tokens[i].is_mandatory
              /\ new.tokens[i].cost = 1
        /\ SeqRange(OptionalStrings(new)) = SeqRange(OptionalStrings(tset))
        /\ Ascending(OptionalStrings(new))
        /\ MapResolves(new)
        /\ (\A i \in 1..Len(tset.tokens) :
               TokenFields(new.tokens[i]) = TokenFields(tset.tokens[i]))
             <=> Ascending(OptionalStrings(tset))
        /\ SameSegmentation(new, tset)
        /\ tokens_from_json(tokens_to_json(new)) = new

\* the set holds 0xFF before "ab" and "\u00E9": its optional tokens are not
\* in ascending order, one is written as a JSON array, one is two bytes of
\* UTF-8
C18_Witness ==
    /\ ~tset_panicked
    /\ OptionalStrings(tset) = << <<255>>, <<97, 98>>, <<195, 169>> >>

\* C19: every iteration of the loop of optimize_bpe increases
\* token_set.ntokens by one (the candidate is never already in the set as a
\* non-literal token), so the loop ends after at most
\* 256 + ntokens - initial size epochs. An iteration ends with the step from
\* "scan" back to the test of the loop condition.
C19_EveryEpochAddsAToken ==
    [][(bpe_pc = "scan" /\ bpe_pc' = "test") =>
          /\ token_set'.ntokens = token_set.ntokens + 1
          /\ Len(token_set'.tokens) = Len(token_set.tokens) + 1]_vars

(***************************************************************************)
(* C20: every DP cell is populated                                         *)
(***************************************************************************)
\* the tokenizer after a reset and the first k bytes of the input
AfterPrefix(k) == slice_loop([tk |-> reset(tokenizer), panic |-> FALSE],
                             SliceTo(input, k), 1)

\* the token ids the loop of lines 354-374 visits for the last byte read by tk
WalkOf(tk) == suffix_chain(tk.token_set, tk.suffix_states[tk.current_state + 1].token_id)

\* what holds of tokenizer tk after the k-th byte of the input
CellPopulated(tk, k) ==
    LET ts == tk.token_set
        read == SliceTo(input, k)
        cell == tk.cost_array[k + 1]
        walk == WalkOf(tk)
    IN  /\ tk.current_state # 0
        /\ Len(tk.cost_array) = k + 1
        /\ \A i \in 1..Len(walk) :
               /\ Len(Tok(ts, walk[i]).string) <= k
               /\ IsSuffixOf(Tok(ts, walk[i]).string, read)
        /\ cell.cost < usize_MAX
        /\ \E i \in 1..Len(walk) : cell.token_id = walk[i]
        /\ IsSuffixOf(Tok(ts, cell.token_id).string, read)

\* C20: while a tokenizer consumes a byte string from a reset state, nothing
\* panics, and after each byte the automaton is in a state other than state
\* 0, every token on the suffix-link walk is a suffix of the bytes read no
\* longer than they are, and the DP cell pushed for the byte has a cost less
\* than usize::MAX and the id of a token of the walk, which ends at that
\* position.
C20_EveryCellPopulated ==
    (tokenizer # NoTokenizer) =>
        /\ ~panicked
        /\ Len(tokenizer.cost_array) = Len(input) + 1
        /\ Len(input) >= 1 => CellPopulated(tokenizer, Len(input))
        /\ \A k \in 1..Len(input) :
               /\ ~AfterPrefix(k).panic
               /\ CellPopulated(AfterPrefix(k).tk, k)
               /\ AfterPrefix(k).tk.cost_array[k + 1] = tokenizer.cost_array[k + 1]

\* a full input whose last byte ends three tokens of different lengths, the
\* cell pushed for it holding one of more than one byte
C20_Witness ==
    /\ tokenizer # NoTokenizer /\ ~panicked
    /\ Len(input) = MaxLen
    /\ Len(WalkOf(tokenizer)) >= 3
    /\ Len(Tok(tokenizer.token_set, Last(tokenizer.cost_array).token_id).string) >= 2
    /\ CellPopulated(tokenizer, Len(input))
    /\ CellPopulated(AfterPrefix(Len(input)).tk, Len(input))

(***************************************************************************)
(* Specification SpecStats: one tokenizer fed inputs that hold the byte 0, *)
(* the string of token 0, and asked for its statistics.                    *)
(***************************************************************************)
StatBytes == {0, 97, 98}
StatStrings == { <<97, 98>>, <<0, 97>> }
StatSlices == UNION { [1..n -> StatBytes] : n \in 1..MaxSlice }

NextStats ==
    \/ \E s \in StatStrings : AddToken(s)
    \/ NewTokenizer
    \/ \E b \in StatBytes : ProcessByte(b)
    \/ \E bytes \in StatSlices : ProcessSlice(bytes)
    \/ GetStats
    \/ Reset

SpecStats == Init /\ [][NextStats]_vars

\* the segmentation the back-pointers of the DP cells choose for the bytes
\* up to pos: its token ids, the leftmost first
RECURSIVE ChosenTokens(_, _)
ChosenTokens(tk, pos) ==
    IF pos <= 0 THEN <<>>
    ELSE LET token_id == tk.cost_array[pos + 1].token_id
         IN  Append(ChosenTokens(tk, pos - Len(Tok(tk.token_set, token_id).string)),
                    token_id)

\* the number of places where a is immediately followed on its right by b
Adjacent(seg, a, b) ==
    Cardinality({i \in 1..(Len(seg) - 1) : seg[i] = a /\ seg[i + 1] = b})

\* what bucket (a, b) is to hold: the adjacent pairs, and the final token
\* once in bucket (last, 0)
PairBucket(seg, a, b) ==
    Adjacent(seg, a, b) + (IF seg # <<>> /\ a = Last(seg) /\ b = 0 THEN 1 ELSE 0)

\* C21: in the statistics of one chunk, with N the number of tokens of the
\* set (tokens.len() = ntokens), pair_count has N * N buckets, bucket
\* a * N + b holds the number of places of the chosen segmentation where a
\* is immediately followed by b, the final token counted once more in
\* bucket (last, 0); the pair counts sum to the sum of the token counts; and
\* every non-zero index i decodes as (i / N, i % N) to the pair it counts,
\* the top pair of optimize_bpe included.
C21_PairCountsAreAdjacencies ==
    (last_stats # NoStats) =>
        LET ts == tokenizer.token_set
            N == ts.ntokens
            seg == ChosenTokens(tokenizer, Len(tokenizer.cost_array) - 1)
            pc == last_stats.pair_count
            tc == last_stats.token_count
            ids == SeqRange(seg) \cup {0}
            top_pair == top_of(pc, pc.len)
        IN  /\ ~panicked
            /\ N = Len(ts.tokens)
            /\ tc.len = N /\ pc.len = N * N
            /\ \A a \in ids : \A b \in ids :
                   VecGet(pc, a * N + b) = PairBucket(seg, a, b)
            /\ \A i \in DOMAIN pc.nz :
                   /\ 0 <= i /\ i < N * N
                   /\ pc.nz[i] = PairBucket(seg, i \div N, i % N)
                   /\ (i \div N) * N + (i % N) = i
            /\ \A t \in DOMAIN tc.nz :
                   tc.nz[t] = Cardinality({k \in 1..Len(seg) : seg[k] = t})
            /\ SumOver(DOMAIN pc.nz, pc.nz) = SumOver(DOMAIN tc.nz, tc.nz)
            /\ SumOver(DOMAIN tc.nz, tc.nz) = Len(seg)
            /\ seg # <<>> =>
                   /\ top_pair.count = PairBucket(seg, top_pair.index \div N,
                                                  top_pair.index % N)
                   /\ top_pair.count >= 1

\* statistics of a full input whose final token is also followed by token 0
\* inside the input, so that bucket (last, 0) holds an adjacent pair and the
\* final token, and whose segmentation uses a token of two bytes
C21_Witness ==
    /\ last_stats # NoStats /\ ~panicked
    /\ Len(input) = MaxLen
    /\ LET ts == tokenizer.token_set
           seg == ChosenTokens(tokenizer, Len(tokenizer.cost_array) - 1)
       IN  /\ Adjacent(seg, Last(seg), 0) >= 1
           /\ VecGet(last_stats.pair_count, Last(seg) * ts.ntokens)
                 = Adjacent(seg, Last(seg), 0) + 1
           /\ \E k \in 1..Len(seg) : Len(Tok(ts, seg[k]).string) = 2

(***************************************************************************)
(* Specification SpecSuffix: the tokens.rs set under add_token,            *)
(* remove_token and generate_suffixes, with tokens that are suffixes of    *)
(* longer tokens.                                                          *)
(***************************************************************************)
\* 'b', "ab", "bab": each a proper suffix of the next
SuffixStrings == { <<98>>, <<97, 98>>, <<98, 97, 98>> }

InitSuffix ==
    /\ token_set = build_with_bin_literals
    /\ tokenizer = NoTokenizer
    /\ input = <<>>
    /\ panicked = FALSE
    /\ last_stats = NoStats
    /\ ScanIdle
    /\ BpeIdle
    /\ tset \in {tokens_build_with_hex_literals, tokens_build_with_bin_literals}
    /\ tset_panicked = FALSE

NextSuffix ==
    \/ \E s \in SuffixStrings : SetAddToken(s)
    \/ \E s \in SuffixStrings : SetRemoveToken(s)
    \/ SetGenerateSuffixes

SpecSuffix == InitSuffix /\ [][NextSuffix]_vars

\* the lengths of the proper non-empty suffixes of string that are strings
\* of tokens of the set
SuffixLengths(ts, string) ==
    {n \in 1..(Len(string) - 1) :
        \E j \in 1..Len(ts.tokens) :
            ts.tokens[j].string = SliceFrom(string, Len(string) - n)}

\* the link of token id is the index of the longest token that is a proper
\* non-empty suffix of it (the non-literal one where a literal has the same
\* string), and None when there is none
LinkCurrent(ts, id) ==
    LET token == Tok(ts, id)
        lens == SuffixLengths(ts, token.string)
    IN  IF lens = {} THEN token.suffix = None
        ELSE LET n == CHOOSE m \in lens : \A k \in lens : k <= m
                 str == SliceFrom(token.string, Len(token.string) - n)
             IN  /\ token.suffix # None
                 /\ 0 <= token.suffix /\ token.suffix < Len(ts.tokens)
                 /\ token.suffix # id
                 /\ Tok(ts, token.suffix).string = str
                 /\ \A j \in 1..Len(ts.tokens) :
                        (ts.tokens[j].string = str /\ ~ts.tokens[j].is_literal)
                            => token.suffix = j - 1

NonLiteralIds(ts) == {i \in 0..(Len(ts.tokens) - 1) : ~Tok(ts, i).is_literal}

\* C22: generate_suffixes run on a set reached by any sequence of
\* add_token, remove_token and earlier generate_suffixes calls leaves every
\* non-literal token with the current index of the longest token that is a
\* proper non-empty suffix of it, None exactly when there is none: no link
\* keeps an index from before a removal.
C22_SuffixesCurrentAfterGenerate ==
    (tset # NoTokenSet /\ ~tset_panicked) =>
        LET new == tokens_generate_suffixes(tset)
        IN  /\ \A id \in NonLiteralIds(new) : LinkCurrent(new, id)
            /\ [i \in 1..Len(new.tokens) |-> [new.tokens[i] EXCEPT !.suffix = None]]
                 = [i \in 1..Len(tset.tokens) |-> [tset.tokens[i] EXCEPT !.suffix = None]]
            /\ new.tokens_by_string = tset.tokens_by_string

\* a set in which a removal has left "bab" with a link that is set and
\* points past the end or at a token that is no proper suffix of "bab" (no
\* suffix of "ab"), and which generate_suffixes puts right
C22_Witness ==
    /\ tset # NoTokenSet /\ ~tset_panicked
    /\ \E id \in NonLiteralIds(tset) :
           /\ Tok(tset, id).string = <<98, 97, 98>>
           /\ Tok(tset, id).suffix # None
           /\ ~LinkCurrent(tset, id)
           /\ \/ Tok(tset, id).suffix >= Len(tset.tokens)
              \/ ~IsSuffixOf(Tok(tset, Tok(tset, id).suffix).string, <<97, 98>>)
           /\ LinkCurrent(tokens_generate_suffixes(tset), id)

(***************************************************************************)
(* C23: remove_token deletes one token and rebuilds an exact reverse map   *)
(***************************************************************************)
\* seq without its p-th element
DeleteAt(seq, p) == SubSeq(seq, 1, p - 1) \o SubSeq(seq, p + 1, Len(seq))

\* the reverse map is exact for the tokens: its keys are the strings of the
\* tokens, each mapped to the index of the non-literal token of that string
\* if there is one and to the literal's index otherwise
MapExact(ts) ==
    /\ DOMAIN ts.tokens_by_string = {ts.tokens[i].string : i \in 1..Len(ts.tokens)}
    /\ \A str \in DOMAIN ts.tokens_by_string :
           LET id == ts.tokens_by_string[str]
               same == {i \in 0..(Len(ts.tokens) - 1) : Tok(ts, i).string = str}
           IN  /\ id \in same
               /\ (\E i \in same : ~Tok(ts, i).is_literal) => ~Tok(ts, id).is_literal
               /\ \A i \in same : ~Tok(ts, i).is_literal => i = id

\* C23: after a successful remove_token(s) the token sequence is the
\* previous one with exactly one token deleted, the optional token of string
\* s, the others in their order, and the reverse map is exact for the new
\* sequence: a removed one-byte optional token leaves its string mapped to
\* the literal.
C23_RemoveDeletesOneAndMapExact ==
    (tset # NoTokenSet /\ ~tset_panicked) =>
        \A s \in SuffixStrings :
            ~tokens_remove_token_panics(tset, s) =>
                LET new == tokens_remove_token(tset, s)
                IN  /\ Len(new.tokens) = Len(tset.tokens) - 1
                    /\ \E p \in 257..Len(tset.tokens) :
                           /\ tset.tokens[p].string = s
                           /\ ~tset.tokens[p].is_literal /\ ~tset.tokens[p].is_mandatory
                           /\ new.tokens = DeleteAt(tset.tokens, p)
                    /\ MapExact(new)
                    /\ Len(s) = 1 =>
                           /\ new.tokens_by_string[s] = s[1]
                           /\ Tok(new, s[1]).is_literal
                    /\ Len(s) > 1 => ~HasKey(new.tokens_by_string, s)

\* a set from which the optional one-byte token 'b' can be removed, with
\* optional tokens after it whose indices shift and a mandatory token that
\* shares its string with a literal: the map then points 'b' at its literal
C23_Witness ==
    /\ tset # NoTokenSet /\ ~tset_panicked
    /\ ~tokens_remove_token_panics(tset, <<98>>)
    /\ LET id == tset.tokens_by_string[<<98>>]
           new == tokens_remove_token(tset, <<98>>)
       IN  /\ id + 2 < Len(tset.tokens)
           /\ new.tokens_by_string[<<98>>] = 98
           /\ new.tokens_by_string[<<97, 98>>] = tset.tokens_by_string[<<97, 98>>] - 1
           /\ \E i \in 256..(Len(new.tokens) - 1) : Tok(new, i).is_mandatory
           /\ MapExact(new)

(***************************************************************************)
(* Specification SpecSplit: main splits the data file into chunks and      *)
(* scans it once.                                                          *)
(***************************************************************************)
\* splits before split_into_chunks has returned
NoSplits == <<>>
\* the data files: every short file, and one whose last chunk is shorter
\* than a chunk size of 2
SplitFiles == Files \cup { <<19, 97, 19, 97>> }

InitSplit ==
    /\ token_set = build_with_bin_literals
    /\ tokenizer = NoTokenizer
    /\ input = <<>>
    /\ panicked = FALSE
    /\ last_stats = NoStats
    /\ file \in SplitFiles
    /\ splits = NoSplits
    /\ nworkers \in 1..MaxWorkers
    /\ main_pc = "split"
    /\ njobs = 0 /\ nresults = 0
    /\ jobs = <<>> /\ jobs_open = FALSE /\ lock = NoWorker
    /\ workers = <<>> /\ results = <<>>
    /\ total_stats = NoStats /\ emitted = <<>>
    /\ BpeIdle
    /\ SetIdle

\* main, line 684: split_into_chunks(filename, CHUNK_SIZE)
SplitIntoChunks(chunk_size) ==
    /\ main_pc = "split"
    /\ splits' = split_into_chunks(file, chunk_size)
    /\ main_pc' = "spawn"
    /\ UNCHANGED <<tokVars, file, nworkers, njobs, nresults, jobs, jobs_open, lock,
                   workers, results, total_stats, emitted>>
    /\ UNCHANGED <<bpeVars, setVars>>

NextSplit ==
    \/ \E chunk_size \in ChunkSizes : SplitIntoChunks(chunk_size)
    \/ NextScan

SpecSplit == InitSplit /\ [][NextSplit]_vars

\* what split_into_chunks is to return for data and chunk_size
ChunksPartition(data, chunk_size, s) ==
    /\ Len(s) >= 1
    /\ s[1] = 0
    /\ s[Len(s)] = Len(data)
    /\ \A i \in 1..(Len(s) - 1) : s[i] < s[i + 1]
    /\ data = <<>> => s = <<0>>
    /\ \A i \in 2..Len(s) : s[i] # Len(data) => data[s[i]] = 19
    /\ \A i \in 1..(Len(s) - 2) : s[i + 1] - s[i] >= chunk_size

\* C24: for every file content and every chunk_size >= 1 split_into_chunks
\* returns a sequence that starts at 0, is strictly increasing and ends at
\* the file length ([0] for an empty file); every boundary other than the
\* file end lies immediately after a 0x13 byte, and every chunk but the last
\* is at least chunk_size bytes long. It holds of the function on every
\* chunk size and of the splits main has computed.
C24_SplitsPartitionFile ==
    /\ \A chunk_size \in ChunkSizes :
           ChunksPartition(file, chunk_size, split_into_chunks(file, chunk_size))
    /\ main_pc # "split" =>
           \E chunk_size \in ChunkSizes :
               /\ splits = split_into_chunks(file, chunk_size)
               /\ ChunksPartition(file, chunk_size, splits)

\* main has split a file into two chunks or more, the first boundary after a
\* 0x13 byte beyond the chunk size and the last chunk shorter than the chunk
\* size, and the scan of the chunks has returned
C24_Witness ==
    /\ main_pc = "done"
    /\ Len(splits) >= 3
    /\ file[splits[2]] = 19
    /\ \E chunk_size \in ChunkSizes :
           /\ splits = split_into_chunks(file, chunk_size)
           /\ splits[2] > chunk_size
           /\ splits[Len(splits)] - splits[Len(splits) - 1] < chunk_size
           /\ ChunksPartition(file, chunk_size, splits)
====
